---------------------------- MODULE Spec2Model ----------------------------
(***************************************************************************)
(* Bundle deployment engine of juju (cmd/juju/commands/bundle.go).         *)
(*                                                                         *)
(* A Go string is modelled as a sequence of tokens (Seq(STRING)): the      *)
(* empty string is <<>>, a placeholder "$addUnit-8" is                     *)
(* <<"$", "addUnit", "-", "8">>, a unit name "wp/0" is <<"wp", "/", "0">>, *)
(* a machine id "0/lxc/0" is <<"0", "/", "lxc", "/", "0">>.                *)
(***************************************************************************)
EXTENDS Naturals, Integers, Sequences, FiniteSets, TLC

(***************************************************************************)
(* Bounds of the model.                                                    *)
(***************************************************************************)
\* number of successive deployBundle invocations against the same model
MaxRuns == 2
\* number of remote calls that may fail over the whole behaviour
MaxFailures == 1
\* number of unit deltas the watcher may deliver before the machine is set
MaxStale == 1

(***************************************************************************)
(* Strings.                                                                *)
(***************************************************************************)
Digits == <<"0", "1", "2", "3", "4", "5", "6", "7", "8", "9">>

\* strconv.Itoa, for numbers of one or two digits
Itoa(n) ==
    IF n < 10 THEN Digits[n + 1]
    ELSE Digits[(n \div 10) + 1] \o Digits[(n % 10) + 1]

IsNumber(t) == \E n \in 0..99 : Itoa(n) = t

\* strconv.Atoi
Atoi(t) == CHOOSE n \in 0..99 : Itoa(n) = t

\* strings.HasPrefix(s, p) for a one-token prefix
HasPrefix(s, p) == Len(s) >= 1 /\ s[1] = p

\* index of the first token equal to t, 0 when there is none
IndexOf(s, t) ==
    IF \E i \in 1..Len(s) : s[i] = t
    THEN CHOOSE i \in 1..Len(s) : s[i] = t /\ \A j \in 1..(i - 1) : s[j] # t
    ELSE 0

\* strings.SplitN(s, sep, 2)
SplitN2(s, sep) ==
    LET i == IndexOf(s, sep)
    IN  IF i = 0 THEN <<s>>
        ELSE <<SubSeq(s, 1, i - 1), SubSeq(s, i + 1, Len(s))>>

\* a Go map read: the zero value (the empty string) for a missing key
Lookup(m, k) == IF k \in DOMAIN m THEN m[k] ELSE <<>>

\* a Go map write
Put(m, k, v) == [x \in DOMAIN m \cup {k} |-> IF x = k THEN v ELSE m[x]]

EmptyMap == [x \in {} |-> <<>>]

\* names.IsValidUnit: <service>/<number>, the service starting with a letter
IsValidUnit(s) == Len(s) = 3 /\ s[2] = "/" /\ IsNumber(s[3]) /\ ~IsNumber(s[1])

\* names.UnitService
UnitService(u) == u[1]

UnitName(svc, n) == <<svc, "/", Itoa(n)>>

(***************************************************************************)
(* Charm URLs (gopkg.in/juju/charm): schema:[~user/]series/name-revision.  *)
(***************************************************************************)
URL(schema, user, series, name, rev) ==
    [schema |-> schema, user |-> user, series |-> series, name |-> name, rev |-> rev]

\* URL.WithRevision
WithRevision(u, rev) == [u EXCEPT !.rev = rev]

\* URL.Path: the URL without its schema
Path(u) ==
    (IF u.user # "" THEN <<"~", u.user, "/">> ELSE <<>>)
    \o (IF u.series # "" THEN <<u.series, "/">> ELSE <<>>)
    \o (IF u.rev >= 0 THEN <<u.name, "-", Itoa(u.rev)>> ELSE <<u.name>>)

\* URL.String
URLString(u) == <<u.schema, ":">> \o Path(u)

\* charm.ParseURL of a fully qualified URL string
ParseURL(s) ==
    LET rest == SubSeq(s, 3, Len(s))
        hasUser == HasPrefix(rest, "~")
        r2 == IF hasUser THEN SubSeq(rest, 4, Len(rest)) ELSE rest
        hasRev == Len(r2) = 5
    IN  URL(s[1], IF hasUser THEN rest[2] ELSE "", r2[1], r2[3],
            IF hasRev THEN Atoi(r2[5]) ELSE -1)


(***************************************************************************)
(* Bundle data (charm.BundleData) and the bundles deployed.                *)
(***************************************************************************)
\* charm.UnitPlacement, the parsed form of a "to" directive
Placement(containerType, machine, service, unit) ==
    [containerType |-> containerType, machine |-> machine,
     service |-> service, unit |-> unit]

ToMachine(label) == Placement("", label, "", -1)
ToContainer(ctype, label) == Placement(ctype, label, "", -1)
ToService(svc) == Placement("", "", svc, -1)
ToUnitContainer(ctype, svc, n) == Placement(ctype, "", svc, n)

\* charm.ServiceSpec
ServiceSpec(name, charm, numUnits, options, to, cons) ==
    [name |-> name, charm |-> charm, numUnits |-> numUnits, options |-> options,
     to |-> to, constraints |-> cons, annotations |-> EmptyMap]

\* charm.MachineSpec
MachineSpec(label, series, annotations) ==
    [label |-> label, series |-> series, constraints |-> <<>>,
     annotations |-> annotations]

\* an option map of one key
Opt(k, v) == [x \in {k} |-> v]

\* Services and machines are listed in the order of their sorted names, the
\* order in which the planner and yaml visit the Go maps.
BundleData(name, services, machines, relations) ==
    [name |-> name, services |-> services, machines |-> machines,
     relations |-> relations]

\* bundle_test.go: TestDeployBundleSuccess (wordpress-simple)
BundleSimple ==
    BundleData("simple",
        <<ServiceSpec("mysql", <<"cs:trusty/mysql-42">>, 1, EmptyMap, <<>>, <<>>),
          ServiceSpec("wordpress", <<"cs:trusty/wordpress-47">>, 1, EmptyMap, <<>>, <<>>)>>,
        <<>>,
        << <<(<<"wordpress", ":", "db">>), (<<"mysql", ":", "server">>)>> >>)

\* bundle_test.go: TestDeployBundleMachinesUnitsPlacement
BundlePlaced ==
    BundleData("placed",
        <<ServiceSpec("sql", <<"cs:trusty/mysql">>, 2, EmptyMap,
                      <<ToUnitContainer("lxc", "wp", 0), ToMachine("new")>>, <<>>),
          ServiceSpec("wp", <<"cs:trusty/wordpress-0">>, 2,
                      Opt("blog-title", "these are the voyages"),
                      <<ToMachine("1"), ToContainer("lxc", "2")>>, <<>>)>>,
        <<MachineSpec("1", "trusty", EmptyMap), MachineSpec("2", "", EmptyMap)>>,
        <<>>)

\* bundle_test.go: TestDeployBundleUnitPlacedInService and
\* TestDeployBundleTwiceScaleUp: more units than BundleSimple, the units of
\* wordpress placed with the units of mysql; TestDeployBundleServiceUpgrade:
\* another revision of the mysql charm and another option value, the service
\* that is upgraded having an option too; TestDeployBundleMachineAttributes:
\* an annotated entity; TestDeployBundleNewRelations: one relation more.
BundleScaled ==
    BundleData("scaled",
        <<[ServiceSpec("mysql", <<"cs:trusty/mysql-43">>, 2,
                       Opt("max-connections", "100"), <<>>, <<>>)
              EXCEPT !.annotations = Opt("foo", "bar")],
          ServiceSpec("wordpress", <<"wordpress">>, 2,
                      Opt("blog-title", "new title"), <<ToService("mysql")>>, <<>>)>>,
        <<>>,
        << <<(<<"wordpress", ":", "db">>), (<<"mysql", ":", "server">>)>>,
           <<(<<"mysql", ":", "monitor">>), (<<"wordpress", ":", "monitor">>)>> >>)

\* bundle_test.go: TestDeployBundleServiceUpgradeFailure (a different series),
\* beside a service that declares no unit
BundleIncompatible ==
    BundleData("incompatible",
        <<ServiceSpec("mysql", <<"cs:trusty/mysql-42">>, 0, EmptyMap, <<>>, <<>>),
          ServiceSpec("wordpress", <<"vivid/wordpress">>, 1,
                      Opt("blog-title", "never set"), <<>>, <<>>)>>,
        <<>>, <<>>)

\* bundle_test.go: deployBundleErrorsTests "invalid bundle data"
BundleNegative ==
    BundleData("negative",
        <<ServiceSpec("mysql", <<"mysql">>, -1, EmptyMap, <<>>, <<>>)>>, <<>>, <<>>)

\* bundle_test.go: deployBundleErrorsTests "invalid constraints"
BundleBadConstraints ==
    BundleData("badconstraints",
        <<ServiceSpec("mysql", <<"mysql">>, 1, EmptyMap, <<>>, << <<"bad-wolf">> >>)>>,
        <<>>, <<>>)

\* bundle_test.go: deployBundleErrorsTests "bundle inception", after two
\* services that share a charm that is a charm
BundleInception ==
    BundleData("inception",
        <<ServiceSpec("aaa", <<"cs:trusty/mysql-42">>, 1, EmptyMap, <<>>, <<>>),
          ServiceSpec("aab", <<"cs:trusty/mysql-42">>, 1, EmptyMap, <<>>, <<>>),
          ServiceSpec("example", <<"local:bundle/example">>, 1, EmptyMap, <<>>, <<>>)>>,
        <<>>, <<>>)

\* bundle_test.go: TestDeployBundleMachineAttributes and
\* TestDeployBundleMachinesUnitsPlacement: an annotated machine that holds a
\* unit of a service and a container with a unit of another;
\* TestDeployBundleUnitPlacedInService: a unit placed with a unit that has no
\* placement, added after a unit that has one
BundleShared ==
    BundleData("shared",
        <<ServiceSpec("cache", <<"cs:trusty/mysql-42">>, 1, EmptyMap,
                      <<ToMachine("1")>>, <<>>),
          ServiceSpec("db", <<"cs:trusty/mysql-42">>, 1, EmptyMap, <<>>, <<>>),
          ServiceSpec("web", <<"cs:trusty/wordpress-47">>, 2, EmptyMap,
                      <<ToContainer("lxc", "1"), ToService("db")>>, <<>>)>>,
        <<MachineSpec("1", "trusty", Opt("foo", "bar"))>>,
        <<>>)

\* a bundle with a machine that holds no unit
BundleUnused ==
    BundleData("unused",
        <<ServiceSpec("cache", <<"cs:trusty/mysql-42">>, 1, EmptyMap, <<>>, <<>>)>>,
        <<MachineSpec("1", "trusty", EmptyMap)>>,
        <<>>)

Bundles == {BundleSimple, BundlePlaced, BundleScaled, BundleIncompatible,
            BundleNegative, BundleBadConstraints, BundleInception, BundleShared,
            BundleUnused}

\* data.Services[name]
ServiceOf(data, name) ==
    LET i == CHOOSE i \in 1..Len(data.services) : data.services[i].name = name
    IN  data.services[i]

ServiceNames(data) == {data.services[i].name : i \in 1..Len(data.services)}

(***************************************************************************)
(* The charm store and the local repository: the URL a charm reference     *)
(* resolves to (resolveCharmStoreEntityURL).                               *)
(***************************************************************************)
Resolved(ref) ==
    CASE ref = <<"cs:trusty/mysql-42">> -> URL("cs", "", "trusty", "mysql", 42)
      [] ref = <<"cs:trusty/mysql-43">> -> URL("cs", "", "trusty", "mysql", 43)
      [] ref = <<"mysql">> -> URL("cs", "", "trusty", "mysql", 43)
      [] ref = <<"cs:trusty/mysql">> -> URL("cs", "", "trusty", "mysql", 2)
      [] ref = <<"cs:trusty/wordpress-47">> -> URL("cs", "", "trusty", "wordpress", 47)
      [] ref = <<"wordpress">> -> URL("cs", "", "trusty", "wordpress", 47)
      [] ref = <<"cs:trusty/wordpress-0">> -> URL("cs", "", "trusty", "wordpress", 0)
      [] ref = <<"vivid/wordpress">> -> URL("cs", "", "vivid", "wordpress", 42)
      [] ref = <<"local:bundle/example">> -> URL("local", "", "bundle", "example", 0)

(***************************************************************************)
(* BundleData.Verify with constraints.Parse as the constraints verifier.   *)
(***************************************************************************)
\* constraints.Parse: every space separated field is <<key, "=", value>>
ConstraintsParse(cons) ==
    \A i \in 1..Len(cons) : Len(cons[i]) = 3 /\ cons[i][2] = "="

Verify(data) ==
    /\ \A i \in 1..Len(data.services) :
          /\ data.services[i].numUnits >= 0
          /\ ConstraintsParse(data.services[i].constraints)
          /\ Len(data.services[i].to) <= data.services[i].numUnits
    /\ \A i \in 1..Len(data.machines) : ConstraintsParse(data.machines[i].constraints)
    /\ \A i \in 1..Len(data.machines) :
          \E j \in 1..Len(data.services) : \E k \in 1..Len(data.services[j].to) :
              data.services[j].to[k].machine = data.machines[i].label

(***************************************************************************)
(* The change planner, bundlechanges.FromData: the changes of a bundle,    *)
(* sorted so that every change follows the changes it requires.            *)
(***************************************************************************)
\* a variant of AddChange that counts the changes from one, by which C18 is
\* shown to depend on the number in the identifier
AddChangeFromOne(cs, kind, method, params, requires) ==
    Append(cs, [id |-> <<method, "-", Itoa(Len(cs) + 1)>>, kind |-> kind,
                params |-> params, requires |-> requires])

\* changeset.add: the identifier is <method>-<number of changes so far>
AddChange(cs, kind, method, params, requires) ==
    Append(cs, [id |-> <<method, "-", Itoa(Len(cs))>>, kind |-> kind,
                params |-> params, requires |-> requires])

LastId(cs) == cs[Len(cs)].id

Placeholder(id) == <<"$">> \o id

RECURSIVE HandleServices(_, _, _)
HandleServices(services, i, acc) ==
    IF i > Len(services) THEN acc
    ELSE
      LET service == services[i]
          known == service.charm \in DOMAIN acc.charms
          cs1 == IF known THEN acc.cs
                 ELSE AddChange(acc.cs, "AddCharm", "addCharm",
                                [charm |-> service.charm], <<>>)
          charms1 == IF known THEN acc.charms
                     ELSE Put(acc.charms, service.charm, LastId(cs1))
          cs2 == AddChange(cs1, "AddService", "deploy",
                           [charm |-> service.charm, service |-> service.name,
                            options |-> service.options,
                            constraints |-> service.constraints],
                           <<charms1[service.charm]>>)
          id == LastId(cs2)
          cs3 == IF DOMAIN service.annotations # {}
                 THEN AddChange(cs2, "SetAnnotations", "setAnnotations",
                                [entityType |-> "service", id |-> Placeholder(id),
                                 annotations |-> service.annotations], <<id>>)
                 ELSE cs2
      IN  HandleServices(services, i + 1,
              [cs |-> cs3, charms |-> charms1,
               services |-> Put(acc.services, service.name, id)])

RECURSIVE HandleMachines(_, _, _)
HandleMachines(machines, i, acc) ==
    IF i > Len(machines) THEN acc
    ELSE
      LET machine == machines[i]
          cs1 == AddChange(acc.cs, "AddMachine", "addMachines",
                           [series |-> machine.series,
                            constraints |-> machine.constraints,
                            containerType |-> "", parentId |-> <<>>], <<>>)
          id == LastId(cs1)
          cs2 == IF DOMAIN machine.annotations # {}
                 THEN AddChange(cs1, "SetAnnotations", "setAnnotations",
                                [entityType |-> "machine", id |-> Placeholder(id),
                                 annotations |-> machine.annotations], <<id>>)
                 ELSE cs1
      IN  HandleMachines(machines, i + 1,
              [cs |-> cs2, machines |-> Put(acc.machines, machine.label, id)])

\* an endpoint with its service replaced by the placeholder of its change
EndpointArg(ep, addedServices) == Placeholder(addedServices[ep[1]]) \o Tail(ep)

RECURSIVE HandleRelations(_, _, _, _)
HandleRelations(relations, i, cs, addedServices) ==
    IF i > Len(relations) THEN cs
    ELSE
      LET relation == relations[i]
      IN  HandleRelations(relations, i + 1,
              AddChange(cs, "AddRelation", "addRelation",
                        [endpoint1 |-> EndpointArg(relation[1], addedServices),
                         endpoint2 |-> EndpointArg(relation[2], addedServices)],
                        <<addedServices[relation[1][1]],
                          addedServices[relation[2][1]]>>),
              addedServices)

\* the unit changes of every service, before placement: records maps the unit
\* "<service>/<i>" of the bundle to the position of its change
RECURSIVE CollectUnits(_, _, _, _, _)
CollectUnits(services, i, n, acc, addedServices) ==
    IF i > Len(services) THEN acc
    ELSE IF n >= services[i].numUnits
    THEN CollectUnits(services, i + 1, 0, acc, addedServices)
    ELSE
      LET added == addedServices[services[i].name]
          cs1 == AddChange(acc.cs, "AddUnit", "addUnit",
                           [service |-> Placeholder(added), to |-> <<>>], <<added>>)
      IN  CollectUnits(services, i, n + 1,
              [cs |-> cs1,
               records |-> Put(acc.records, UnitName(services[i].name, n), Len(cs1))],
              addedServices)

\* addContainer: the machine or container change a unit is placed in
AddContainer(cs, containerType, parentId) ==
    AddChange(cs, "AddMachine", "addMachines",
              [series |-> "", constraints |-> <<>>, containerType |-> containerType,
               parentId |-> IF parentId = <<>> THEN <<>> ELSE Placeholder(parentId)],
              IF parentId = <<>> THEN <<>> ELSE <<parentId>>)

\* unitParent: the changes required to place a unit as p says, and the
\* identifier of the change the unit is placed with
UnitParent(cs, p, records, addedMachines, placedUnits) ==
    IF p.machine # ""
    THEN IF p.machine = "new"
         THEN LET cs1 == AddContainer(cs, p.containerType, <<>>)
              IN  [cs |-> cs1, parent |-> LastId(cs1), placed |-> placedUnits]
         ELSE IF p.containerType # ""
         THEN LET cs1 == AddContainer(cs, p.containerType, addedMachines[p.machine])
              IN  [cs |-> cs1, parent |-> LastId(cs1), placed |-> placedUnits]
         ELSE [cs |-> cs, parent |-> addedMachines[p.machine], placed |-> placedUnits]
    ELSE
      LET number == IF p.unit # -1 THEN p.unit
                    ELSE IF p.service \in DOMAIN placedUnits
                    THEN placedUnits[p.service] + 1 ELSE 0
          placed == IF p.unit # -1 THEN placedUnits
                    ELSE [x \in DOMAIN placedUnits \cup {p.service} |->
                            IF x = p.service THEN number ELSE placedUnits[x]]
          other == cs[records[UnitName(p.service, number)]].id
      IN  IF p.containerType # ""
          THEN LET cs1 == AddContainer(cs, p.containerType, other)
               IN  [cs |-> cs1, parent |-> LastId(cs1), placed |-> placed]
          ELSE [cs |-> cs, parent |-> other, placed |-> placed]

\* the placement of the units of every placed service: a unit beyond the
\* last directive is placed as the last directive says
RECURSIVE PlaceUnits(_, _, _, _, _, _, _)
PlaceUnits(services, i, n, cs, placedUnits, records, addedMachines) ==
    IF i > Len(services) THEN cs
    ELSE IF Len(services[i].to) = 0 \/ n >= services[i].numUnits
    THEN PlaceUnits(services, i + 1, 0, cs, [x \in {} |-> 0], records, addedMachines)
    ELSE
      LET service == services[i]
          p == IF n < Len(service.to) THEN service.to[n + 1]
               ELSE service.to[Len(service.to)]
          r == UnitParent(cs, p, records, addedMachines, placedUnits)
          k == records[UnitName(service.name, n)]
          cs1 == [r.cs EXCEPT ![k].requires = Append(@, r.parent),
                              ![k].params.to = Placeholder(r.parent)]
      IN  PlaceUnits(services, i, n + 1, cs1, r.placed, records, addedMachines)

\* changeset.sorted: a change that requires a change not yet listed goes to
\* the end of the queue
RECURSIVE Sorted(_, _)
Sorted(queue, sorted) ==
    IF queue = <<>> THEN sorted
    ELSE
      LET change == Head(queue)
          listed == {sorted[j].id : j \in 1..Len(sorted)}
      IN  IF \A j \in 1..Len(change.requires) : change.requires[j] \in listed
          THEN Sorted(Tail(queue), Append(sorted, change))
          ELSE Sorted(Append(Tail(queue), change), sorted)

Unsorted(data) ==
    LET s == HandleServices(data.services, 1,
                 [cs |-> <<>>, charms |-> EmptyMap, services |-> EmptyMap])
        m == HandleMachines(data.machines, 1, [cs |-> s.cs, machines |-> EmptyMap])
        r == HandleRelations(data.relations, 1, m.cs, s.services)
        u == CollectUnits(data.services, 1, 0, [cs |-> r, records |-> EmptyMap],
                          s.services)
    IN  PlaceUnits(data.services, 1, 0, u.cs, [x \in {} |-> 0], u.records, m.machines)

FromData(data) == Sorted(Unsorted(data), <<>>)

(***************************************************************************)
(* State.                                                                  *)
(***************************************************************************)
VARIABLES
    env,              \* the live model behind the API: charms, services (charm and
                      \* options), units (unit -> machine), machines, relations
    watcher,          \* the AllWatcher: state, deltas not yet delivered, Stop calls
    pc,               \* "idle", "loop" (inside the loop of deployBundle), "returned"
    data,             \* the bundle data being deployed
    changes,          \* h.changes
    idx,              \* position in changes of the change the loop is at
    results,          \* h.results
    unitStatus,       \* h.unitStatus
    ignoredMachines,  \* h.ignoredMachines, the services mapped to true
    ignoredUnits,     \* h.ignoredUnits, the services mapped to true
    err,              \* the error deployBundle returned, <<>> for nil
    log,              \* the lines given to log.Infof, each with the position of
                      \* the change that was being applied
    calls,            \* the API calls of this run, in order
    resolved,         \* the placeholders the handlers of this run resolved, each
                      \* with the position of its change and the value it got
    run,              \* number of deployBundle invocations started
    failures,         \* number of remote calls that failed so far
    stale,            \* number of machine-less unit deltas produced so far
    start,            \* the model and the failure count when this run started
    prev,             \* the previous run: bundle, plan, outcome, model at its start
    cancelledAt       \* the number of calls the run had made when the user asked
                      \* to cancel it, -1 while they have not; deployBundle has no
                      \* parameter, channel or signal handler that tells it

vars == <<env, watcher, pc, data, changes, idx, results, unitStatus,
          ignoredMachines, ignoredUnits, err, log, calls, resolved, run,
          failures, stale, start, prev, cancelledAt>>

\* the state a handler reads and writes, as one record
St == [env |-> env, watcher |-> watcher, results |-> results,
       unitStatus |-> unitStatus, ignoredMachines |-> ignoredMachines,
       ignoredUnits |-> ignoredUnits, err |-> err, log |-> log, calls |-> calls,
       resolved |-> resolved,
       failures |-> failures, stale |-> stale,
       data |-> data, changes |-> changes, idx |-> idx]

\* an API call is made
Call(st, op) == [st EXCEPT !.calls = Append(@, [op |-> op, idx |-> st.idx])]

\* h.log.Infof
Infof(st, line) == [st EXCEPT !.log = Append(@, [idx |-> st.idx, line |-> line])]

\* a handler resolved the placeholder of the given argument of its change
Resolve(st, arg, value) ==
    [st EXCEPT !.resolved = Append(@, [idx |-> st.idx, arg |-> arg, value |-> value])]

\* return an error
Failed(st, e) == [st EXCEPT !.err = e]

\* errors.Annotate
Annotate(e, msg) == <<msg>> \o e

\* a remote call fails for a reason outside the model (network, server)
RemoteFailure(st) == [st EXCEPT !.failures = @ + 1]

RemoteError == <<"remote failure">>

\* strings.HasSuffix(err.Error(), msg)
HasSuffix(e, msg) == Len(e) >= 1 /\ e[Len(e)] = msg

MutatingCalls == {"AddCharm", "AddCharmWithAuthorization", "AddLocalCharm",
                  "ServiceDeploy", "ServiceSetCharm", "ServiceSetYAML",
                  "AddMachines", "AddServiceUnits", "AddRelation"}

(***************************************************************************)
(* The API server (api.Client and the model behind it).                    *)
(***************************************************************************)
EmptyEnv == [charms |-> {}, services |-> EmptyMap, units |-> EmptyMap,
             machines |-> {}, relations |-> {}]

UnitsOf(units, service) == {u \in DOMAIN units : UnitService(u) = service}

\* the elements of a set, as a list
RECURSIVE SeqOfSet(_)
SeqOfSet(S) ==
    IF S = {} THEN <<>>
    ELSE LET x == CHOOSE x \in S : TRUE
         IN  <<x>> \o SeqOfSet(S \ {x})

\* Client.Status: the machine of every unit of every service
Status(e) == e.units

\* a new top level machine
NewMachine(e) == <<Itoa(Cardinality({m \in e.machines : Len(m) = 1}))>>

\* a new container of the given type in the given machine
NewContainer(e, parent, ctype) ==
    parent \o <<"/", ctype, "/",
                Itoa(Cardinality({m \in e.machines :
                        /\ Len(m) = Len(parent) + 4
                        /\ SubSeq(m, 1, Len(parent)) = parent
                        /\ m[Len(parent) + 2] = ctype}))>>

\* Client.AddMachines with one machine: the new model and machine id
ApiAddMachines(e, containerType, parentId) ==
    IF containerType = ""
    THEN [err |-> <<>>, machine |-> NewMachine(e),
          env |-> [e EXCEPT !.machines = @ \cup {NewMachine(e)}]]
    ELSE IF parentId = <<>>
    THEN LET host == NewMachine(e)
             e1 == [e EXCEPT !.machines = @ \cup {host}]
             m == NewContainer(e1, host, containerType)
         IN  [err |-> <<>>, machine |-> m,
              env |-> [e1 EXCEPT !.machines = @ \cup {m}]]
    ELSE IF parentId \notin e.machines
    THEN [err |-> <<"machine not found">>, machine |-> <<>>, env |-> e]
    ELSE LET m == NewContainer(e, parentId, containerType)
         IN  [err |-> <<>>, machine |-> m,
              env |-> [e EXCEPT !.machines = @ \cup {m}]]

\* Client.AddServiceUnits with one unit: the unit gets the next number of its
\* service and is assigned to the given machine, or to a new one.  With
\* assigned = FALSE the assignment fails after the unit was created.
ApiAddServiceUnits(e, service, machineSpec, assigned) ==
    IF service \notin DOMAIN e.services
    THEN [err |-> <<"service not found">>, unit |-> <<>>, env |-> e]
    ELSE IF machineSpec # <<>> /\ machineSpec \notin e.machines
    THEN [err |-> <<"machine not found">>, unit |-> <<>>, env |-> e]
    ELSE
      LET unit == UnitName(service, Cardinality(UnitsOf(e.units, service)))
          machine == IF machineSpec = <<>> THEN NewMachine(e) ELSE machineSpec
      IN  IF assigned
          THEN [err |-> <<>>, unit |-> unit,
                env |-> [e EXCEPT !.machines = @ \cup {machine},
                                  !.units = Put(@, unit, machine)]]
          ELSE [err |-> <<"cannot assign unit">>, unit |-> unit,
                env |-> [e EXCEPT !.units = Put(@, unit, <<>>)]]

\* Client.ServiceDeploy with no units
ApiServiceDeploy(e, ch, service) ==
    IF service \in DOMAIN e.services
    THEN [err |-> <<"cannot add service", "service already exists">>, env |-> e]
    ELSE IF ch \notin e.charms
    THEN [err |-> <<"charm not found">>, env |-> e]
    ELSE [err |-> <<>>,
          env |-> [e EXCEPT !.services =
                      Put(@, service, [charm |-> ch, options |-> EmptyMap])]]

\* Client.ServiceSetYAML: the given options are set, the others are kept
ApiServiceSetYAML(e, service, options) ==
    [e EXCEPT !.services[service].options =
        [k \in DOMAIN @ \cup DOMAIN options |->
            IF k \in DOMAIN options THEN options[k] ELSE @[k]]]

\* Client.ServiceSetCharm
ApiServiceSetCharm(e, service, ch) == [e EXCEPT !.services[service].charm = ch]

\* the service of an endpoint "service" or "service:relation"
EndpointService(ep) == IF ep = <<>> THEN "" ELSE ep[1]

\* Client.AddRelation: a relation is the unordered pair of its endpoints
ApiAddRelation(e, ep1, ep2) ==
    IF EndpointService(ep1) \notin DOMAIN e.services
       \/ EndpointService(ep2) \notin DOMAIN e.services
    THEN [err |-> <<"service not found">>, env |-> e]
    ELSE IF {ep1, ep2} \in e.relations
    THEN [err |-> <<"cannot add relation", "relation already exists">>, env |-> e]
    ELSE [err |-> <<>>, env |-> [e EXCEPT !.relations = @ \cup {{ep1, ep2}}]]

\* Client.WatchAll: the first deltas are the entities of the model
ApiWatchAll(e) ==
    LET us == SeqOfSet(DOMAIN e.units)
    IN  [state |-> "open", stops |-> 0,
         queue |-> [i \in 1..Len(us) |-> [name |-> us[i], machineId |-> e.units[us[i]]]]]

\* the unit deltas the model produces when a unit is created: with early, one
\* from before the unit was assigned to its machine
UnitDeltas(unit, machine, early) ==
    (IF early /\ machine # <<>> THEN <<[name |-> unit, machineId |-> <<>>]>> ELSE <<>>)
    \o <<[name |-> unit, machineId |-> machine]>>

(***************************************************************************)
(* Placeholders.                                                           *)
(***************************************************************************)
\* the value a Go panic leaves in place of a result
Panic(msg) == <<"panic:", msg>>

IsPanic(v) == Len(v) = 2 /\ v[1] = "panic:"

\* a variant of resolve that gives the placeholder when the results do not
\* have its key, by which C34 is shown to depend on the zero value of the map
resolveKeep(placeholder, res) ==
    IF ~HasPrefix(placeholder, "$")
    THEN Panic("placeholder does not start with $")
    ELSE IF Tail(placeholder) \in DOMAIN res THEN res[Tail(placeholder)]
    ELSE placeholder

\* resolve
resolve(placeholder, res) ==
    IF ~HasPrefix(placeholder, "$")
    THEN Panic("placeholder does not start with $")
    ELSE Lookup(res, Tail(placeholder))

\* resolveRelation
resolveRelation(e, res) ==
    LET parts == SplitN2(e, ":")
        service == resolve(parts[1], res)
    IN  IF Len(parts) = 1 THEN service
        ELSE service \o <<":">> \o parts[2]

\* a variant of machinesForService that finds no machine, by which C1 is
\* shown to depend on the count of the units the model has
machinesForServiceNone(view, service) == <<>>

\* a variant of machinesForService that lists every machine once, by which
\* C33 is shown to depend on the entry kept for every unit
machinesForServiceDistinct(view, service) ==
    SeqOfSet({view[u] : u \in {u \in DOMAIN view : <<UnitService(u)>> = service}})

\* machinesForService
machinesForService(view, service) ==
    LET units == SeqOfSet({u \in DOMAIN view : <<UnitService(u)>> = service})
    IN  [i \in 1..Len(units) |-> view[units[i]]]

\* resolveMachine, once its loop has ended
resolveMachine(placeholder, res, view) ==
    LET machineOrUnit == resolve(placeholder, res)
    IN  IF ~IsValidUnit(machineOrUnit) THEN machineOrUnit
        ELSE Lookup(view, machineOrUnit)

\* a variant of resolveMachineWaits that never waits, by which C11 is shown
\* to depend on the loop of resolveMachine
resolveMachineNoWait(placeholder, res, view) == FALSE

\* the condition of the loop of resolveMachine
resolveMachineWaits(placeholder, res, view) ==
    LET machineOrUnit == resolve(placeholder, res)
    IN  IsValidUnit(machineOrUnit) /\ Lookup(view, machineOrUnit) = <<>>

\* a variant of FirstRequiring that stops at a SetAnnotations change as at
\* any other, by which C32 is shown to depend on "continue mainloop"
FirstRequiringAny(chs, id) ==
    LET hits == {i \in 1..Len(chs) :
                    \E j \in 1..Len(chs[i].requires) : chs[i].requires[j] = id}
    IN  IF hits = {} THEN 0
        ELSE CHOOSE i \in hits : \A k \in hits : i <= k

\* the position of the first change, not a SetAnnotations change, that
\* requires the given change; 0 when there is none
FirstRequiring(chs, id) ==
    LET hits == {i \in 1..Len(chs) :
                    /\ \E j \in 1..Len(chs[i].requires) : chs[i].requires[j] = id
                    /\ chs[i].kind # "SetAnnotations"}
    IN  IF hits = {} THEN 0
        ELSE CHOOSE i \in hits : \A k \in hits : i <= k

\* serviceForMachineChange
RECURSIVE serviceForMachineChange(_, _, _)
serviceForMachineChange(chs, res, id) ==
    LET i == FirstRequiring(chs, id)
    IN  IF i = 0 THEN Panic("unreachable")
        ELSE IF chs[i].kind = "AddMachine"
        THEN serviceForMachineChange(chs, res, chs[i].id)
        ELSE IF chs[i].kind = "AddUnit"
        THEN resolve(chs[i].params.service, res)
        ELSE Panic("unexpected change")

\* h.data.Services[service].NumUnits; reading a service the bundle does not
\* have dereferences a nil pointer
HasService(d, service) == Len(service) = 1 /\ service[1] \in ServiceNames(d)

\* a variant of NumUnits that asks for one unit more, by which C2 is shown to
\* depend on the number of units the handlers compare with
NumUnitsMore(d, service) == ServiceOf(d, service[1]).numUnits + 1

\* a variant of NumUnits that asks for one unit less, by which C16 is shown
\* to depend on the handlers comparing the units of the view with the units
\* of the bundle
NumUnitsLess(d, service) == ServiceOf(d, service[1]).numUnits - 1

\* a variant of NumUnits that finds no unit declared, by which C38 is shown
\* to depend on the units the services of the unit changes declare
NumUnitsNone(d, service) == 0

NumUnits(d, service) == ServiceOf(d, service[1]).numUnits

\* existingUnitsMessage
existingUnitsMessage(num) ==
    IF num = 1 THEN <<"1 unit already present">>
    ELSE <<Itoa(num), " units already present">>

(***************************************************************************)
(* Charms.                                                                 *)
(***************************************************************************)
\* a charm the charm store serves to authorized clients only
\* (bundle_test.go: TestDeployBundleGatedCharm)
Gated(curl) == curl.name = "wordpress" /\ curl.rev = 47

\* a call of the API with what it was given or what it returned
CallWith(st, op, arg) ==
    [st EXCEPT !.calls = Append(@, [op |-> op, idx |-> st.idx, arg |-> arg])]

\* the error of Client.AddCharm for a charm the client may not read
DischargeRequired == <<"discharge required">>

\* a variant of isBakeryError that takes every error for one of the bakery,
\* by which C19 is shown to depend on the kind of the error of AddCharm
isBakeryErrorAlways(e) == TRUE

\* isBakeryError: a discharge required or interaction required response
isBakeryError(e) == e \in {DischargeRequired, <<"interaction required">>}

\* csClient.authorize: the macaroon of the charm store, with the first party
\* caveat that names the charm
authorize(curl) == [caveats |-> <<<<"is-entity ">> \o URLString(curl)>>]

\* Client.AddCharm: the error it returns, <<>> for nil
ApiAddCharm(curl, fails) ==
    IF fails THEN RemoteError
    ELSE IF Gated(curl) THEN DischargeRequired
    ELSE <<>>

\* addCharmViaAPI; c.fail names the call that fails, if any
addCharmViaAPI(st, curl, c) ==
    IF curl.schema = "local"
    THEN LET s1 == Call(st, "AddLocalCharm")
         IN  IF c.fail = "AddLocalCharm"
             THEN Failed(RemoteFailure(s1), RemoteError)
             ELSE [s1 EXCEPT !.env.charms = @ \cup {URLString(curl)}]
    ELSE IF curl.schema = "cs"
    THEN LET e == ApiAddCharm(curl, c.fail = "AddCharm")
             s1 == CallWith(IF c.fail = "AddCharm" THEN RemoteFailure(st) ELSE st,
                            "AddCharm", e)
             s2 == Call(s1, "authorize")
             s3 == CallWith(s2, "AddCharmWithAuthorization", authorize(curl))
         IN  IF e = <<>>
             THEN [s1 EXCEPT !.env.charms = @ \cup {URLString(curl)}]
             ELSE IF ~isBakeryError(e) THEN Failed(s1, e)
             ELSE IF c.fail = "authorize"
             THEN Failed(RemoteFailure(s2), <<"cannot get macaroon">>)
             ELSE IF c.fail = "AddCharmWithAuthorization"
             THEN Failed(RemoteFailure(s3), RemoteError)
             ELSE [s3 EXCEPT !.env.charms = @ \cup {URLString(curl)}]
    ELSE Failed(st, <<"unsupported charm URL schema">>)

\* a variant of addCharm that tests the series of the URL after it added the
\* charm, by which C31 is shown to depend on the place of the test
addCharmLateCheck(st, id, p, c) ==
    LET url == Resolved(p.charm)
        r == addCharmViaAPI(st, url, c)
    IN  IF r.err # <<>>
        THEN Failed(r, Annotate(r.err, "cannot add charm"))
        ELSE IF url.series = "bundle"
        THEN Failed(r, <<"expected charm URL, got bundle URL">>)
        ELSE [Infof(r, <<"added charm ">> \o URLString(url))
                EXCEPT !.results =
                   Put(@, <<"resolved-">> \o p.charm, URLString(url))]

\* a variant of addCharm that stores the URL under the id of the change, by
\* which C30 is shown to depend on the key "resolved-" and the reference
addCharmById(st, id, p, c) ==
    LET url == Resolved(p.charm)
    IN  IF url.series = "bundle"
        THEN Failed(st, <<"expected charm URL, got bundle URL">>)
        ELSE LET r == addCharmViaAPI(st, url, c)
             IN  IF r.err # <<>>
                 THEN Failed(r, Annotate(r.err, "cannot add charm"))
                 ELSE [Infof(r, <<"added charm ">> \o URLString(url))
                         EXCEPT !.results = Put(@, id, URLString(url))]

\* bundleHandler.addCharm
addCharm(st, id, p, c) ==
    LET url == Resolved(p.charm)
    IN  IF url.series = "bundle"
        THEN Failed(st, <<"expected charm URL, got bundle URL">>)
        ELSE LET r == addCharmViaAPI(st, url, c)
             IN  IF r.err # <<>>
                 THEN Failed(r, Annotate(r.err, "cannot add charm"))
                 ELSE [Infof(r, <<"added charm ">> \o URLString(url))
                         EXCEPT !.results =
                            Put(@, <<"resolved-">> \o p.charm, URLString(url))]

(***************************************************************************)
(* Services.                                                               *)
(***************************************************************************)
\* a variant of Compatible that accepts every charm, by which C6 is shown to
\* depend on the test of upgradeCharm
CompatibleAlways(url, existing) == TRUE

\* the test of upgradeCharm: the charms are the same but for their revision
\* (and their schema, which URL.Path leaves out)
Compatible(url, existing) ==
    Path(WithRevision(url, -1)) = Path(WithRevision(existing, -1))

\* a variant of upgradeCharm that does not compare the charm of the service
\* with the charm of the bundle before it sets it, by which C24 is shown to
\* depend on the test existing.String() == id
upgradeCharmAlways(st, service, id, c) ==
    LET s1 == Call(st, "ServiceGetCharmURL")
        existing == ParseURL(st.env.services[service].charm)
        url == ParseURL(id)
    IN  IF c.fail = "ServiceGetCharmURL"
        THEN Failed(RemoteFailure(s1),
                    Annotate(RemoteError, "cannot retrieve info for service"))
        ELSE IF ~Compatible(url, existing)
        THEN Failed(s1, <<"bundle charm ">> \o id
                        \o <<" is incompatible with existing charm ">>
                        \o URLString(existing))
        ELSE LET s2 == Call(s1, "ServiceSetCharm")
             IN  IF c.fail = "ServiceSetCharm"
                 THEN Failed(RemoteFailure(s2),
                             Annotate(RemoteError, "cannot upgrade charm"))
                 ELSE Infof([s2 EXCEPT !.env = ApiServiceSetCharm(@, service, id)],
                            <<"upgraded charm for existing service ", service, " (from ">>
                            \o URLString(existing) \o <<" to ">> \o id \o <<")">>)

\* upgradeCharm
upgradeCharm(st, service, id, c) ==
    LET s1 == Call(st, "ServiceGetCharmURL")
        existing == ParseURL(st.env.services[service].charm)
        url == ParseURL(id)
    IN  IF c.fail = "ServiceGetCharmURL"
        THEN Failed(RemoteFailure(s1),
                    Annotate(RemoteError, "cannot retrieve info for service"))
        ELSE IF URLString(existing) = id
        THEN Infof(s1, <<"reusing service ", service, " (charm: ">> \o id \o <<")">>)
        ELSE IF ~Compatible(url, existing)
        THEN Failed(s1, <<"bundle charm ">> \o id
                        \o <<" is incompatible with existing charm ">>
                        \o URLString(existing))
        ELSE LET s2 == Call(s1, "ServiceSetCharm")
             IN  IF c.fail = "ServiceSetCharm"
                 THEN Failed(RemoteFailure(s2),
                             Annotate(RemoteError, "cannot upgrade charm"))
                 ELSE Infof([s2 EXCEPT !.env = ApiServiceSetCharm(@, service, id)],
                            <<"upgraded charm for existing service ", service, " (from ">>
                            \o URLString(existing) \o <<" to ">> \o id \o <<")">>)

\* setServiceOptions
setServiceOptions(st, service, options, c) ==
    LET s1 == Call(st, "ServiceSetYAML")
    IN  IF c.fail = "ServiceSetYAML"
        THEN Failed(RemoteFailure(s1),
                    Annotate(RemoteError, "cannot set options for service"))
        ELSE [s1 EXCEPT !.env = ApiServiceSetYAML(@, service, options)]

\* a variant of addServiceOptions that calls ServiceSetYAML whether or not
\* the service has options, by which C25 is shown to depend on the test
\* len(p.Options) > 0
addServiceOptionsAlways(st, id, p, c) ==
    LET o == setServiceOptions(st, p.service, p.options, c)
        s1 == IF o.err # <<>> THEN o
              ELSE Infof(o, <<"service ", p.service, " configured">>)
    IN  IF s1.err # <<>> THEN s1
        ELSE [s1 EXCEPT !.results = Put(@, id, <<p.service>>)]

\* bundleHandler.addService, after the service was deployed or upgraded
addServiceOptions(st, id, p, c) ==
    LET s1 == IF DOMAIN p.options # {}
              THEN LET o == setServiceOptions(st, p.service, p.options, c)
                   IN  IF o.err # <<>> THEN o
                       ELSE Infof(o, <<"service ", p.service, " configured">>)
              ELSE st
    IN  IF s1.err # <<>> THEN s1
        ELSE [s1 EXCEPT !.results = Put(@, id, <<p.service>>)]

\* a variant of addService that sets the options of the service even when
\* upgradeCharm returned an error, by which C7 is shown to depend on the
\* return that follows the error
addServiceForced(st, id, p, c) ==
    LET ch == Lookup(st.results, <<"resolved-">> \o p.charm)
        s1 == Call(st, "ServiceDeploy")
        r == ApiServiceDeploy(st.env, ch, p.service)
    IN  IF c.fail = "ServiceDeploy"
        THEN Failed(RemoteFailure(s1), Annotate(RemoteError, "cannot deploy service"))
        ELSE IF r.err = <<>>
        THEN addServiceOptions(
                 Infof([s1 EXCEPT !.env = r.env],
                       <<"service ", p.service, " deployed (charm: ">> \o ch \o <<")">>),
                 id, p, c)
        ELSE IF HasSuffix(r.err, "service already exists")
        THEN LET u == upgradeCharm(s1, p.service, ch, c)
             IN  IF u.err # <<>>
                 THEN Failed(addServiceOptions(Failed(u, <<>>), id, p, c),
                             Annotate(u.err, "cannot upgrade service"))
                 ELSE addServiceOptions(u, id, p, c)
        ELSE Failed(s1, Annotate(r.err, "cannot deploy service"))

\* bundleHandler.addService
addService(st, id, p, c) ==
    LET ch == Lookup(st.results, <<"resolved-">> \o p.charm)
        s1 == Call(st, "ServiceDeploy")
        r == ApiServiceDeploy(st.env, ch, p.service)
    IN  IF c.fail = "ServiceDeploy"
        THEN Failed(RemoteFailure(s1), Annotate(RemoteError, "cannot deploy service"))
        ELSE IF r.err = <<>>
        THEN addServiceOptions(
                 Infof([s1 EXCEPT !.env = r.env],
                       <<"service ", p.service, " deployed (charm: ">> \o ch \o <<")">>),
                 id, p, c)
        ELSE IF HasSuffix(r.err, "service already exists")
        THEN LET u == upgradeCharm(s1, p.service, ch, c)
             IN  IF u.err # <<>>
                 THEN Failed(u, Annotate(u.err, "cannot upgrade service"))
                 ELSE addServiceOptions(u, id, p, c)
        ELSE Failed(s1, Annotate(r.err, "cannot deploy service"))

(***************************************************************************)
(* Machines, units, relations, annotations.                                *)
(***************************************************************************)
\* instance.ParseContainerType
ParseContainerType(t) == t \in {"lxc", "kvm"}

\* a variant of PseudoResult that stores the machine the model would create
\* next, by which C27 is shown to depend on the pseudo-result being taken
\* from the machines of the view
PseudoResultNew(st, id, existingMachines, c) ==
    [st EXCEPT !.results = Put(@, id, NewMachine(st.env))]

\* the skip path of addMachine and addUnit: the pseudo-result is one of the
\* machines of the view, c.pick standing for rand.Intn(numExisting) + 1;
\* rand.Intn panics when there is none
PseudoResult(st, id, existingMachines, c) ==
    IF Len(existingMachines) = 0
    THEN Failed(st, Panic("invalid argument to Intn"))
    ELSE [st EXCEPT !.results = Put(@, id, existingMachines[c.pick])]

\* a variant of addMachineCall that leaves ParentId out of the parameters of
\* AddMachines, by which C14 is shown to depend on the machine the container
\* is asked in
addMachineCallNoParent(st, id, p, service, parentId, c) ==
    LET s1 == Call(st, "AddMachines")
        r == ApiAddMachines(st.env, p.containerType, <<>>)
    IN  IF c.fail = "AddMachines"
        THEN Failed(RemoteFailure(s1),
                    Annotate(RemoteError, "cannot create machine for hosting unit"))
        ELSE IF r.err # <<>> THEN Failed(s1, r.err)
        ELSE [Infof([s1 EXCEPT !.env = r.env],
                    IF p.containerType = ""
                    THEN <<"created new machine ">> \o r.machine
                         \o <<" for holding ">> \o service \o <<" unit">>
                    ELSE IF p.parentId = <<>>
                    THEN <<"created ">> \o r.machine
                         \o <<" container in new machine for holding ">>
                         \o service \o <<" unit">>
                    ELSE <<"created ">> \o r.machine \o <<" container in machine ">>
                         \o parentId \o <<" for holding ">> \o service \o <<" unit">>)
                EXCEPT !.results = Put(@, id, r.machine)]

\* bundleHandler.addMachine, from the call of AddMachines on
addMachineCall(st, id, p, service, parentId, c) ==
    LET s1 == Call(st, "AddMachines")
        r == ApiAddMachines(st.env, p.containerType, parentId)
    IN  IF c.fail = "AddMachines"
        THEN Failed(RemoteFailure(s1),
                    Annotate(RemoteError, "cannot create machine for hosting unit"))
        ELSE IF r.err # <<>> THEN Failed(s1, r.err)
        ELSE [Infof([s1 EXCEPT !.env = r.env],
                    IF p.containerType = ""
                    THEN <<"created new machine ">> \o r.machine
                         \o <<" for holding ">> \o service \o <<" unit">>
                    ELSE IF p.parentId = <<>>
                    THEN <<"created ">> \o r.machine
                         \o <<" container in new machine for holding ">>
                         \o service \o <<" unit">>
                    ELSE <<"created ">> \o r.machine \o <<" container in machine ">>
                         \o parentId \o <<" for holding ">> \o service \o <<" unit">>)
                EXCEPT !.results = Put(@, id, r.machine)]

\* a variant of addMachine that keeps its flag in the map of addUnit, by which
\* the two maps are shown to be apart
addMachineSharedFlag(st, id, p, c) ==
    LET service == serviceForMachineChange(st.changes, st.results, id)
        existingMachines == machinesForService(st.unitStatus, service)
        numExisting == Len(existingMachines)
    IN  IF IsPanic(service) THEN Failed(st, service)
        ELSE IF ~HasService(st.data, service)
        THEN Failed(st, Panic("nil pointer dereference"))
        ELSE IF numExisting >= NumUnits(st.data, service)
        THEN PseudoResult(
                 IF service[1] \notin st.ignoredUnits
                 THEN Infof([st EXCEPT !.ignoredUnits = @ \cup {service[1]}],
                            <<"avoid creating other machines to host ">> \o service
                            \o <<" units: ">> \o existingUnitsMessage(numExisting))
                 ELSE st,
                 id, existingMachines, c)
        ELSE IF ~ConstraintsParse(p.constraints)
        THEN Failed(st, <<"invalid constraints for machine">>)
        ELSE IF p.containerType = ""
        THEN addMachineCall(st, id, p, service, <<>>, c)
        ELSE IF ~ParseContainerType(p.containerType)
        THEN Failed(st, <<"cannot create machine for hosting unit",
                          "invalid container type">>)
        ELSE IF p.parentId = <<>>
        THEN addMachineCall(st, id, p, service, <<>>, c)
        ELSE addMachineCall(Resolve(st, "parentId",
                                    resolveMachine(p.parentId, st.results,
                                                   st.unitStatus)),
                            id, p, service,
                            resolveMachine(p.parentId, st.results, st.unitStatus), c)

\* bundleHandler.addMachine
addMachine(st, id, p, c) ==
    LET service == serviceForMachineChange(st.changes, st.results, id)
        existingMachines == machinesForService(st.unitStatus, service)
        numExisting == Len(existingMachines)
    IN  IF IsPanic(service) THEN Failed(st, service)
        ELSE IF ~HasService(st.data, service)
        THEN Failed(st, Panic("nil pointer dereference"))
        ELSE IF numExisting >= NumUnits(st.data, service)
        THEN PseudoResult(
                 IF service[1] \notin st.ignoredMachines
                 THEN Infof([st EXCEPT !.ignoredMachines = @ \cup {service[1]}],
                            <<"avoid creating other machines to host ">> \o service
                            \o <<" units: ">> \o existingUnitsMessage(numExisting))
                 ELSE st,
                 id, existingMachines, c)
        ELSE IF ~ConstraintsParse(p.constraints)
        THEN Failed(st, <<"invalid constraints for machine">>)
        ELSE IF p.containerType = ""
        THEN addMachineCall(st, id, p, service, <<>>, c)
        ELSE IF ~ParseContainerType(p.containerType)
        THEN Failed(st, <<"cannot create machine for hosting unit",
                          "invalid container type">>)
        ELSE IF p.parentId = <<>>
        THEN addMachineCall(st, id, p, service, <<>>, c)
        ELSE addMachineCall(Resolve(st, "parentId",
                                    resolveMachine(p.parentId, st.results,
                                                   st.unitStatus)),
                            id, p, service,
                            resolveMachine(p.parentId, st.results, st.unitStatus), c)

\* whether addMachine, applied now, waits in resolveMachine
addMachineWaits(st, id, p) ==
    LET service == serviceForMachineChange(st.changes, st.results, id)
    IN  /\ ~IsPanic(service)
        /\ HasService(st.data, service)
        /\ Len(machinesForService(st.unitStatus, service)) < NumUnits(st.data, service)
        /\ ConstraintsParse(p.constraints)
        /\ p.containerType # ""
        /\ ParseContainerType(p.containerType)
        /\ p.parentId # <<>>
        /\ resolveMachineWaits(p.parentId, st.results, st.unitStatus)

\* a variant of addRelation that returns every error of AddRelation, by which
\* C26 is shown to depend on the test of the message of the error
addRelationStrict(st, id, p, c) ==
    LET ep1 == resolveRelation(p.endpoint1, st.results)
        ep2 == resolveRelation(p.endpoint2, st.results)
        s1 == Call(Resolve(Resolve(st, "endpoint1",
                                   resolve(SplitN2(p.endpoint1, ":")[1], st.results)),
                           "endpoint2",
                           resolve(SplitN2(p.endpoint2, ":")[1], st.results)),
                   "AddRelation")
        r == ApiAddRelation(st.env, ep1, ep2)
    IN  IF c.fail # "AddRelation" /\ r.err = <<>>
        THEN Infof([s1 EXCEPT !.env = r.env],
                   <<"related ">> \o ep1 \o <<" and ">> \o ep2)
        ELSE Failed(IF c.fail = "AddRelation" THEN RemoteFailure(s1) ELSE s1,
                    Annotate(IF c.fail = "AddRelation" THEN RemoteError ELSE r.err,
                             "cannot add relation"))

\* bundleHandler.addRelation
addRelation(st, id, p, c) ==
    LET ep1 == resolveRelation(p.endpoint1, st.results)
        ep2 == resolveRelation(p.endpoint2, st.results)
        s1 == Call(Resolve(Resolve(st, "endpoint1",
                                   resolve(SplitN2(p.endpoint1, ":")[1], st.results)),
                           "endpoint2",
                           resolve(SplitN2(p.endpoint2, ":")[1], st.results)),
                   "AddRelation")
        r == ApiAddRelation(st.env, ep1, ep2)
    IN  IF c.fail # "AddRelation" /\ r.err = <<>>
        THEN Infof([s1 EXCEPT !.env = r.env],
                   <<"related ">> \o ep1 \o <<" and ">> \o ep2)
        ELSE IF c.fail # "AddRelation" /\ HasSuffix(r.err, "relation already exists")
        THEN Infof(s1, ep1 \o <<" and ">> \o ep2 \o <<" are already related">>)
        ELSE Failed(IF c.fail = "AddRelation" THEN RemoteFailure(s1) ELSE s1,
                    Annotate(IF c.fail = "AddRelation" THEN RemoteError ELSE r.err,
                             "cannot add relation"))

\* a variant of addUnitCall that leaves the new unit out of the view, by
\* which C13 is shown to depend on h.unitStatus[unit] = machineSpec
addUnitCallNoView(st, id, service, machineSpec, c) ==
    LET s1 == Call(st, "AddServiceUnits")
        r == ApiAddServiceUnits(st.env, service[1], machineSpec, c.fail # "AssignUnit")
        early == c.early /\ r.err = <<>>
        s2 == IF r.unit = <<>> THEN s1
              ELSE [s1 EXCEPT !.env = r.env,
                              !.stale = IF early THEN @ + 1 ELSE @,
                              !.watcher.queue =
                                   @ \o UnitDeltas(r.unit, r.env.units[r.unit], early)]
    IN  IF c.fail = "AddServiceUnits"
        THEN Failed(RemoteFailure(s1),
                    Annotate(RemoteError, "cannot add unit for service"))
        ELSE IF r.err # <<>>
        THEN Failed(IF c.fail = "AssignUnit" THEN RemoteFailure(s2) ELSE s2,
                    Annotate(r.err, "cannot add unit for service"))
        ELSE IF machineSpec = <<>>
        THEN [Infof(s2, <<"added ">> \o r.unit \o <<" unit to new machine">>)
                EXCEPT !.results = Put(@, id, r.unit)]
        ELSE [Infof(s2, <<"added ">> \o r.unit \o <<" unit to machine ">> \o machineSpec)
                EXCEPT !.results = Put(@, id, machineSpec)]

\* a variant of addUnitCall that stores the name of the unit as the result
\* whatever the machine spec, and the view of the unit without its machine
addUnitCallUnitResult(st, id, service, machineSpec, c) ==
    LET s1 == Call(st, "AddServiceUnits")
        r == ApiAddServiceUnits(st.env, service[1], machineSpec, c.fail # "AssignUnit")
        early == c.early /\ r.err = <<>>
        s2 == IF r.unit = <<>> THEN s1
              ELSE [s1 EXCEPT !.env = r.env,
                              !.stale = IF early THEN @ + 1 ELSE @,
                              !.watcher.queue =
                                   @ \o UnitDeltas(r.unit, r.env.units[r.unit], early)]
    IN  IF c.fail = "AddServiceUnits"
        THEN Failed(RemoteFailure(s1),
                    Annotate(RemoteError, "cannot add unit for service"))
        ELSE IF r.err # <<>>
        THEN Failed(IF c.fail = "AssignUnit" THEN RemoteFailure(s2) ELSE s2,
                    Annotate(r.err, "cannot add unit for service"))
        ELSE IF machineSpec = <<>>
        THEN [Infof(s2, <<"added ">> \o r.unit \o <<" unit to new machine">>)
                EXCEPT !.results = Put(@, id, r.unit),
                       !.unitStatus = Put(@, r.unit, machineSpec)]
        ELSE [Infof(s2, <<"added ">> \o r.unit \o <<" unit to machine ">> \o machineSpec)
                EXCEPT !.results = Put(@, id, r.unit),
                       !.unitStatus = Put(@, r.unit, <<>>)]

\* bundleHandler.addUnit, from the call of AddServiceUnits on; the watcher
\* receives the deltas of the new unit
addUnitCall(st, id, service, machineSpec, c) ==
    LET s1 == Call(st, "AddServiceUnits")
        r == ApiAddServiceUnits(st.env, service[1], machineSpec, c.fail # "AssignUnit")
        early == c.early /\ r.err = <<>>
        s2 == IF r.unit = <<>> THEN s1
              ELSE [s1 EXCEPT !.env = r.env,
                              !.stale = IF early THEN @ + 1 ELSE @,
                              !.watcher.queue =
                                   @ \o UnitDeltas(r.unit, r.env.units[r.unit], early)]
    IN  IF c.fail = "AddServiceUnits"
        THEN Failed(RemoteFailure(s1),
                    Annotate(RemoteError, "cannot add unit for service"))
        ELSE IF r.err # <<>>
        THEN Failed(IF c.fail = "AssignUnit" THEN RemoteFailure(s2) ELSE s2,
                    Annotate(r.err, "cannot add unit for service"))
        ELSE IF machineSpec = <<>>
        THEN [Infof(s2, <<"added ">> \o r.unit \o <<" unit to new machine">>)
                EXCEPT !.results = Put(@, id, r.unit),
                       !.unitStatus = Put(@, r.unit, machineSpec)]
        ELSE [Infof(s2, <<"added ">> \o r.unit \o <<" unit to machine ">> \o machineSpec)
                EXCEPT !.results = Put(@, id, machineSpec),
                       !.unitStatus = Put(@, r.unit, machineSpec)]

\* bundleHandler.addUnit
addUnit(st0, id, p, c) ==
    LET service == resolve(p.service, st0.results)
        st == Resolve(st0, "service", service)
        existingMachines == machinesForService(st.unitStatus, service)
        numExisting == Len(existingMachines)
    IN  IF IsPanic(service) THEN Failed(st, service)
        ELSE IF ~HasService(st.data, service)
        THEN Failed(st, Panic("nil pointer dereference"))
        ELSE IF numExisting >= NumUnits(st.data, service)
        THEN PseudoResult(
                 IF service[1] \notin st.ignoredUnits
                 THEN Infof([st EXCEPT !.ignoredUnits = @ \cup {service[1]}],
                            <<"avoid adding new units to service ">> \o service
                            \o <<": ">> \o existingUnitsMessage(numExisting))
                 ELSE st,
                 id, existingMachines, c)
        ELSE IF p.to = <<>>
        THEN addUnitCall(st, id, service, <<>>, c)
        ELSE addUnitCall(Resolve(st, "to",
                                 resolveMachine(p.to, st.results, st.unitStatus)),
                         id, service,
                         resolveMachine(p.to, st.results, st.unitStatus), c)

\* whether addUnit, applied now, waits in resolveMachine
addUnitWaits(st, id, p) ==
    LET service == resolve(p.service, st.results)
    IN  /\ ~IsPanic(service)
        /\ HasService(st.data, service)
        /\ Len(machinesForService(st.unitStatus, service)) < NumUnits(st.data, service)
        /\ p.to # <<>>
        /\ resolveMachineWaits(p.to, st.results, st.unitStatus)

\* a variant of setAnnotations that stores the entity as its result and logs
\* a line, by which C35 is shown to depend on the empty body of the handler
setAnnotationsRecorded(st, id, p, c) ==
    [Infof(st, <<"annotations set for ">> \o resolve(p.id, st.results))
       EXCEPT !.results = Put(@, id, resolve(p.id, st.results))]

\* bundleHandler.setAnnotations
setAnnotations(st, id, p, c) == st

(***************************************************************************)
(* deployBundle.                                                           *)
(***************************************************************************)
NoWatcher == [state |-> "none", stops |-> 0, queue |-> <<>>]

\* AllWatcher.Stop
Stop(w) == [w EXCEPT !.state = "stopped", !.stops = @ + 1]

\* a change of a kind this applicator does not know
UnknownChange(cs) ==
    Append(cs, [id |-> <<"expose", "-", Itoa(Len(cs))>>, kind |-> "Unknown",
                params |-> [service |-> <<>>], requires |-> <<>>])

\* the outcomes rand.Intn can have in the change at hand: the positions of
\* the machines of the service of the change
Picks(st, service) ==
    IF IsPanic(service) \/ Len(machinesForService(st.unitStatus, service)) = 0
    THEN {1}
    ELSE 1..Len(machinesForService(st.unitStatus, service))

\* the handler state is stored
Commit(s) ==
    /\ env' = s.env
    /\ watcher' = s.watcher
    /\ results' = s.results
    /\ unitStatus' = s.unitStatus
    /\ ignoredMachines' = s.ignoredMachines
    /\ ignoredUnits' = s.ignoredUnits
    /\ log' = s.log
    /\ calls' = s.calls
    /\ resolved' = s.resolved
    /\ failures' = s.failures
    /\ stale' = s.stale

\* a variant of AfterHandler that leaves out the change that follows, by
\* which C3 is shown to depend on the loop taking the changes one by one
AfterHandlerSkips(s) ==
    /\ UNCHANGED <<data, changes, run, start, prev, cancelledAt>>
    /\ IF s.err = <<>>
       THEN /\ Commit(s)
            /\ idx' = idx + 2
            /\ UNCHANGED <<pc, err>>
       ELSE /\ Commit([s EXCEPT !.watcher = Stop(@)])
            /\ err' = IF IsPanic(s.err) THEN s.err
                      ELSE Annotate(s.err, "cannot deploy bundle")
            /\ pc' = IF IsPanic(s.err) THEN "panicked" ELSE "returned"
            /\ UNCHANGED idx

\* a variant of AfterHandler that keeps the error and goes on with the next
\* change, by which C9 is shown to depend on the return that follows an error
AfterHandlerContinues(s) ==
    /\ UNCHANGED <<data, changes, run, start, prev, pc, cancelledAt>>
    /\ Commit(s)
    /\ idx' = idx + 1
    /\ err' = s.err

\* a variant of AfterHandler that, when a handler returned an error, takes
\* back from the model what the run added to it, by which C39 is shown to
\* depend on the run leaving in place what it did
AfterHandlerRollback(s) ==
    /\ UNCHANGED <<data, changes, run, start, prev, cancelledAt>>
    /\ IF s.err = <<>>
       THEN /\ Commit(s)
            /\ idx' = idx + 1
            /\ UNCHANGED <<pc, err>>
       ELSE /\ Commit([s EXCEPT !.watcher = Stop(@), !.env = start.env])
            /\ err' = IF IsPanic(s.err) THEN s.err
                      ELSE Annotate(s.err, "cannot deploy bundle")
            /\ pc' = IF IsPanic(s.err) THEN "panicked" ELSE "returned"
            /\ UNCHANGED idx

\* a variant of AfterHandler that leaves the loop once the user asked to
\* cancel the run, by which C22 is shown to depend on the loop going on to
\* the last change whatever the user asks
AfterHandlerCancelled(s) ==
    /\ UNCHANGED <<data, changes, run, start, prev, cancelledAt>>
    /\ IF s.err = <<>> /\ cancelledAt = -1
       THEN /\ Commit(s)
            /\ idx' = idx + 1
            /\ UNCHANGED <<pc, err>>
       ELSE IF s.err = <<>>
       THEN /\ Commit([s EXCEPT !.watcher = Stop(@)])
            /\ idx' = idx + 1
            /\ pc' = "returned"
            /\ UNCHANGED err
       ELSE /\ Commit([s EXCEPT !.watcher = Stop(@)])
            /\ err' = IF IsPanic(s.err) THEN s.err
                      ELSE Annotate(s.err, "cannot deploy bundle")
            /\ pc' = IF IsPanic(s.err) THEN "panicked" ELSE "returned"
            /\ UNCHANGED idx

\* the loop of deployBundle after a handler returned: the next change, or
\* the error is annotated and returned, the deferred watcher.Stop running on
\* every way out
AfterHandler(s) ==
    /\ UNCHANGED <<data, changes, run, start, prev, cancelledAt>>
    /\ IF s.err = <<>>
       THEN /\ Commit(s)
            /\ idx' = idx + 1
            /\ UNCHANGED <<pc, err>>
       ELSE /\ Commit([s EXCEPT !.watcher = Stop(@)])
            /\ err' = IF IsPanic(s.err) THEN s.err
                      ELSE Annotate(s.err, "cannot deploy bundle")
            /\ pc' = IF IsPanic(s.err) THEN "panicked" ELSE "returned"
            /\ UNCHANGED idx

\* the loop is at a change of the given kind
AtChange(kind) ==
    /\ pc = "loop"
    /\ idx <= Len(changes)
    /\ changes[idx].kind = kind

\* the calls that can fail in the handler of each kind of change
FailPoints(kind) ==
    CASE kind = "AddCharm" -> {"AddCharm", "authorize", "AddCharmWithAuthorization"}
      [] kind = "AddService" -> {"ServiceDeploy", "ServiceGetCharmURL",
                                 "ServiceSetCharm", "ServiceSetYAML"}
      [] kind = "AddMachine" -> {"AddMachines"}
      [] kind = "AddUnit" -> {"AddServiceUnits", "AssignUnit"}
      [] kind = "AddRelation" -> {"AddRelation"}
      [] OTHER -> {}

\* what the environment decides in one handler: the call that fails, if any
\* failure is left, the outcome of rand.Intn, and whether the watcher sees
\* the new unit before its machine
Choices(kind, picks) ==
    [fail : {"none"} \cup (IF failures < MaxFailures THEN FailPoints(kind) ELSE {}),
     pick : picks,
     early : {FALSE} \cup (IF kind = "AddUnit" /\ stale < MaxStale
                           THEN {TRUE} ELSE {})]

\* a variant of Plan that takes the changes from the last to the first, by
\* which C4 is shown to depend on the order of the plan
PlanReversed(d, extended) ==
    [i \in 1..Len(FromData(d)) |-> FromData(d)[Len(FromData(d)) + 1 - i]]

\* changes := bundlechanges.FromData(data); with extended, the planner is
\* one that also returns a change of a kind this applicator does not know
Plan(d, extended) ==
    IF extended THEN UnknownChange(FromData(d)) ELSE FromData(d)

NoBundle == BundleData("", <<>>, <<>>, <<>>)

Init ==
    /\ env = EmptyEnv
    /\ watcher = NoWatcher
    /\ pc = "idle"
    /\ data = NoBundle
    /\ changes = <<>>
    /\ idx = 1
    /\ results = EmptyMap
    /\ unitStatus = EmptyMap
    /\ ignoredMachines = {}
    /\ ignoredUnits = {}
    /\ err = <<>>
    /\ log = <<>>
    /\ calls = <<>>
    /\ resolved = <<>>
    /\ run = 0
    /\ failures = 0
    /\ stale = 0
    /\ start = [env |-> EmptyEnv, failures |-> 0]
    /\ prev = [run |-> 0, data |-> NoBundle, changes |-> <<>>, err |-> <<>>,
               pc |-> "idle", start |-> [env |-> EmptyEnv, failures |-> 0]]
    /\ cancelledAt = -1

\* deployBundle up to its loop: the bundle is verified, the changes are
\* planned, the view of the units is read from the status and the watcher is
\* started
DeployBundle(d, extended, fail) ==
    /\ pc \in {"idle", "returned", "panicked"}
    /\ run < MaxRuns
    /\ fail = "none" \/ failures < MaxFailures
    /\ run' = run + 1
    /\ prev' = [run |-> run, data |-> data, changes |-> changes, err |-> err,
                pc |-> pc, start |-> start]
    /\ start' = [env |-> env, failures |-> failures]
    /\ data' = d
    /\ idx' = 1
    /\ results' = EmptyMap
    /\ ignoredMachines' = {}
    /\ ignoredUnits' = {}
    /\ log' = <<>>
    /\ resolved' = <<>>
    /\ cancelledAt' = -1
    /\ UNCHANGED <<env, stale>>
    /\ IF ~Verify(d)
       THEN /\ err' = Annotate(<<"invalid bundle">>, "cannot deploy bundle")
            /\ pc' = "returned"
            /\ calls' = <<>>
            /\ changes' = <<>>
            /\ unitStatus' = EmptyMap
            /\ watcher' = NoWatcher
            /\ UNCHANGED failures
       ELSE IF fail = "Status"
       THEN /\ err' = Annotate(RemoteError, "cannot get environment status")
            /\ pc' = "returned"
            /\ calls' = <<[op |-> "Status", idx |-> 0]>>
            /\ changes' = Plan(d, extended)
            /\ unitStatus' = EmptyMap
            /\ watcher' = NoWatcher
            /\ failures' = failures + 1
       ELSE IF fail = "WatchAll"
       THEN /\ err' = Annotate(RemoteError, "cannot watch environment")
            /\ pc' = "returned"
            /\ calls' = <<[op |-> "Status", idx |-> 0], [op |-> "WatchAll", idx |-> 0]>>
            /\ changes' = Plan(d, extended)
            /\ unitStatus' = Status(env)
            /\ watcher' = NoWatcher
            /\ failures' = failures + 1
       ELSE /\ err' = <<>>
            /\ pc' = "loop"
            /\ calls' = <<[op |-> "Status", idx |-> 0], [op |-> "WatchAll", idx |-> 0]>>
            /\ changes' = Plan(d, extended)
            /\ unitStatus' = Status(env)
            /\ watcher' = ApiWatchAll(env)
            /\ UNCHANGED failures

\* In the actions of the handlers, st is the state the handler is called in
\* and s the state it returns.

\* case *bundlechanges.AddCharmChange
AddCharmChange ==
    /\ AtChange("AddCharm")
    /\ \E c \in Choices("AddCharm", {1}), st \in {St} :
          \E s \in {addCharm(st, changes[idx].id, changes[idx].params, c)} :
              AfterHandler(s)

\* case *bundlechanges.AddServiceChange
AddServiceChange ==
    /\ AtChange("AddService")
    /\ \E c \in Choices("AddService", {1}), st \in {St} :
          \E s \in {addService(st, changes[idx].id, changes[idx].params, c)} :
              AfterHandler(s)

\* case *bundlechanges.AddMachineChange, when resolveMachine does not wait
AddMachineChange ==
    /\ AtChange("AddMachine")
    /\ ~addMachineWaits(St, changes[idx].id, changes[idx].params)
    /\ \E c \in Choices("AddMachine",
                        Picks(St, serviceForMachineChange(changes, results,
                                                          changes[idx].id))),
          st \in {St} :
          \E s \in {addMachine(st, changes[idx].id, changes[idx].params, c)} :
              AfterHandler(s)

\* case *bundlechanges.AddUnitChange, when resolveMachine does not wait
AddUnitChange ==
    /\ AtChange("AddUnit")
    /\ ~addUnitWaits(St, changes[idx].id, changes[idx].params)
    /\ \E c \in Choices("AddUnit",
                        Picks(St, resolve(changes[idx].params.service, results))),
          st \in {St} :
          \E s \in {addUnit(st, changes[idx].id, changes[idx].params, c)} :
              AfterHandler(s)

\* case *bundlechanges.AddRelationChange
AddRelationChange ==
    /\ AtChange("AddRelation")
    /\ \E c \in Choices("AddRelation", {1}), st \in {St} :
          \E s \in {addRelation(st, changes[idx].id, changes[idx].params, c)} :
              AfterHandler(s)

\* case *bundlechanges.SetAnnotationsChange
SetAnnotationsChange ==
    /\ AtChange("SetAnnotations")
    /\ \E c \in Choices("SetAnnotations", {1}), st \in {St} :
          \E s \in {setAnnotations(st, changes[idx].id, changes[idx].params, c)} :
              AfterHandler(s)

\* default: the error is returned as it is
UnknownChangeType ==
    /\ AtChange("Unknown")
    /\ watcher' = Stop(watcher)
    /\ err' = <<"unknown change type">>
    /\ pc' = "returned"
    /\ UNCHANGED <<env, data, changes, idx, results, unitStatus, ignoredMachines,
                   ignoredUnits, log, calls, resolved, run, failures, stale,
                   start, prev, cancelledAt>>

\* a variant of ApplyDeltas that stores nothing, by which C12 is shown to
\* depend on updateUnitStatus storing the machines of the deltas
ApplyDeltasNone(view, deltas) == view

\* the unit deltas are stored in the view
RECURSIVE ApplyDeltas(_, _)
ApplyDeltas(view, deltas) ==
    IF deltas = <<>> THEN view
    ELSE ApplyDeltas(Put(view, Head(deltas).name, Head(deltas).machineId),
                     Tail(deltas))

\* a variant of updateUnitStatus that runs whenever the loop is at a change,
\* as a tracker of its own would, by which C20 is shown to depend on
\* updateUnitStatus being called by resolveMachine only
updateUnitStatusAnyTime ==
    /\ pc = "loop"
    /\ idx <= Len(changes)
    /\ \/ /\ failures < MaxFailures
          /\ AfterHandler(Failed(RemoteFailure(Call(St, "Next")),
                                 <<"cannot retrieve placement", "cannot resolve machine",
                                   "cannot update environment status">> \o RemoteError))
       \/ /\ watcher.queue # <<>>
          /\ \E n \in {1, Len(watcher.queue)} :
                Commit([Call(St, "Next") EXCEPT
                           !.watcher.queue = SubSeq(@, n + 1, Len(@)),
                           !.unitStatus = ApplyDeltas(@, SubSeq(watcher.queue, 1, n))])
          /\ UNCHANGED <<pc, data, changes, idx, err, run, start, prev, cancelledAt>>

\* the mutexes held when h.unitStatus is written or read: bundleHandler has
\* no mutex, and updateUnitStatus and machinesForService lock nothing
MutexesHeld == {}

\* updateUnitStatus, called by resolveMachine while the unit has no machine
\* in the view: watcher.Next returns the first deltas of the watcher, one
\* or more, or it fails and the handler returns the error
updateUnitStatus ==
    /\ pc = "loop"
    /\ idx <= Len(changes)
    /\ \/ /\ changes[idx].kind = "AddMachine"
          /\ addMachineWaits(St, changes[idx].id, changes[idx].params)
       \/ /\ changes[idx].kind = "AddUnit"
          /\ addUnitWaits(St, changes[idx].id, changes[idx].params)
    /\ \/ /\ failures < MaxFailures
          /\ AfterHandler(Failed(RemoteFailure(Call(St, "Next")),
                                 <<"cannot retrieve placement", "cannot resolve machine",
                                   "cannot update environment status">> \o RemoteError))
       \/ /\ watcher.queue # <<>>
          /\ \E n \in {1, Len(watcher.queue)} :
                Commit([Call(St, "Next") EXCEPT
                           !.watcher.queue = SubSeq(@, n + 1, Len(@)),
                           !.unitStatus = ApplyDeltas(@, SubSeq(watcher.queue, 1, n))])
          /\ UNCHANGED <<pc, data, changes, idx, err, run, start, prev, cancelledAt>>

\* a variant of Done that leaves the watcher open, by which C10 is shown to
\* depend on the deferred watcher.Stop
DoneNoStop ==
    /\ pc = "loop"
    /\ idx > Len(changes)
    /\ pc' = "returned"
    /\ UNCHANGED <<env, watcher, data, changes, idx, results, unitStatus,
                   ignoredMachines, ignoredUnits, err, log, calls, resolved, run,
                   failures, stale, start, prev, cancelledAt>>

\* the loop is over: return nil
Done ==
    /\ pc = "loop"
    /\ idx > Len(changes)
    /\ watcher' = Stop(watcher)
    /\ pc' = "returned"
    /\ UNCHANGED <<env, data, changes, idx, results, unitStatus, ignoredMachines,
                   ignoredUnits, err, log, calls, resolved, run, failures, stale,
                   start, prev, cancelledAt>>

Next ==
    \/ \E d \in Bundles, extended \in BOOLEAN, fail \in {"none", "Status", "WatchAll"} :
          DeployBundle(d, extended, fail)
    \/ AddCharmChange
    \/ AddServiceChange
    \/ AddMachineChange
    \/ AddUnitChange
    \/ AddRelationChange
    \/ SetAnnotationsChange
    \/ UnknownChangeType
    \/ updateUnitStatus
    \/ Done

Spec == Init /\ [][Next]_vars

(***************************************************************************)
(* Properties.                                                             *)
(***************************************************************************)
\* the positions of the calls of the run that are of the given operations
\* the steps of one run of deployBundle, which is sequential code: the step
\* that is enabled is taken.  watcher.Next is one of them: it returns when the
\* watcher has deltas or fails.  Nothing makes the user start another run.
Step ==
    \/ AddCharmChange
    \/ AddServiceChange
    \/ AddMachineChange
    \/ AddUnitChange
    \/ AddRelationChange
    \/ SetAnnotationsChange
    \/ UnknownChangeType
    \/ updateUnitStatus
    \/ Done

\* the runs of the specification in which the steps are fair
MaxFairRuns == 1

\* the user starts a run, while one is left
StartRun ==
    /\ run < MaxFairRuns
    /\ \E d \in Bundles, extended \in BOOLEAN, fail \in {"none", "Status", "WatchAll"} :
          DeployBundle(d, extended, fail)

FairNext ==
    \/ StartRun
    \/ AddCharmChange
    \/ AddServiceChange
    \/ AddMachineChange
    \/ AddUnitChange
    \/ AddRelationChange
    \/ SetAnnotationsChange
    \/ UnknownChangeType
    \/ updateUnitStatus
    \/ Done

\* the state after construction, with the remote failures that are left to
\* the run: with none left, every call of the run succeeds
FairInit ==
    /\ env = EmptyEnv
    /\ watcher = NoWatcher
    /\ pc = "idle"
    /\ data = NoBundle
    /\ changes = <<>>
    /\ idx = 1
    /\ results = EmptyMap
    /\ unitStatus = EmptyMap
    /\ ignoredMachines = {}
    /\ ignoredUnits = {}
    /\ err = <<>>
    /\ log = <<>>
    /\ calls = <<>>
    /\ resolved = <<>>
    /\ run = 0
    /\ failures \in 0..MaxFailures
    /\ stale = 0
    /\ start = [env |-> EmptyEnv, failures |-> failures]
    /\ prev = [run |-> 0, data |-> NoBundle, changes |-> <<>>, err |-> <<>>,
               pc |-> "idle", start |-> [env |-> EmptyEnv, failures |-> failures]]
    /\ cancelledAt = -1

FairSpec == FairInit /\ [][FairNext]_vars /\ WF_vars(Step)

\* the user asks to cancel the run at hand, while a call of a handler is in
\* flight or between two changes: nothing of the run changes
Cancel ==
    /\ pc = "loop"
    /\ cancelledAt = -1
    /\ cancelledAt' = Len(calls)
    /\ UNCHANGED <<env, watcher, pc, data, changes, idx, results, unitStatus,
                   ignoredMachines, ignoredUnits, err, log, calls, resolved, run,
                   failures, stale, start, prev>>

CancelNext ==
    \/ StartRun
    \/ AddCharmChange
    \/ AddServiceChange
    \/ AddMachineChange
    \/ AddUnitChange
    \/ AddRelationChange
    \/ SetAnnotationsChange
    \/ UnknownChangeType
    \/ updateUnitStatus
    \/ Done
    \/ Cancel

\* the runs of deployBundle the user may ask to cancel
CancelSpec == Init /\ [][CancelNext]_vars

CallsOf(ops) == {k \in 1..Len(calls) : calls[k].op \in ops}

\* the change was applied: its handler recorded its result
Applied(ch) ==
    CASE ch.kind = "AddCharm" -> (<<"resolved-">> \o ch.params.charm) \in DOMAIN results
      [] ch.kind \in {"AddService", "AddMachine", "AddUnit"} -> ch.id \in DOMAIN results
      [] OTHER -> TRUE

\* what a run leaves of the model: services with their charms and options,
\* relations, units and their machines
Model(e) == [services |-> e.services, relations |-> e.relations, units |-> e.units]

\* the run at hand follows a complete run of the same bundle
SecondRun ==
    /\ run >= 2
    /\ prev.data = data
    /\ prev.pc = "returned"
    /\ prev.err = <<>>

\* C1: idempotence.  In a run of a bundle that follows a complete run of the
\* same bundle, no AddMachines and no AddServiceUnits call is made, every
\* AddRelation change reports that the services are already related, every
\* AddMachine and AddUnit change takes the skip path, and the run, when it
\* completes, leaves the services, their charms and options, the relations,
\* the units and their machines as they were.
C1_Idempotence ==
    SecondRun =>
        /\ CallsOf({"AddMachines", "AddServiceUnits"}) = {}
        /\ \A k \in 1..Len(log) :
              /\ changes[log[k].idx].kind = "AddRelation"
                    => log[k].line[Len(log[k].line)] = " are already related"
              /\ changes[log[k].idx].kind \in {"AddMachine", "AddUnit"}
                    => log[k].line[1] \in {"avoid creating other machines to host ",
                                           "avoid adding new units to service "}
        /\ pc = "returned" /\ err = <<>> => Model(env) = Model(start.env)

\* a second run of a bundle with machines, units and a relation is complete
C1_Witness ==
    /\ SecondRun
    /\ pc = "returned"
    /\ err = <<>>
    /\ \E k \in 1..Len(log) : log[k].line[Len(log[k].line)] = " are already related"
    /\ \E k \in 1..Len(log) : log[k].line[1] = "avoid adding new units to service "
    /\ CallsOf({"AddRelation"}) # {}

\* C3: the changes are applied one at a time in the order of the plan: the
\* changes before the one the loop is at were all applied, the lines of the
\* log and the API calls follow the order of the changes, and a line about a
\* skipped machine or unit is logged while the change it is about is applied.
C3_PlanOrder ==
    /\ pc \in {"loop", "returned"} =>
          \A j \in 1..Len(changes) : j < idx => Applied(changes[j])
    /\ \A j, k \in 1..Len(log) : j < k => log[j].idx <= log[k].idx
    /\ \A j, k \in 1..Len(calls) : j < k => calls[j].idx <= calls[k].idx
    /\ \A k \in 1..Len(log) :
          /\ log[k].line[1] = "avoid adding new units to service "
                => /\ changes[log[k].idx].kind = "AddUnit"
                   /\ resolve(changes[log[k].idx].params.service, results)
                         = <<log[k].line[2]>>
          /\ log[k].line[1] = "avoid creating other machines to host "
                => /\ changes[log[k].idx].kind = "AddMachine"
                   /\ serviceForMachineChange(changes, results, changes[log[k].idx].id)
                         = <<log[k].line[2]>>

\* a run is complete, with lines of several changes and a skipped unit
C3_Witness ==
    /\ pc = "returned"
    /\ err = <<>>
    /\ \E j, k \in 1..Len(log) :
          /\ log[j].idx < log[k].idx
          /\ log[j].line[1] = "avoid adding new units to service "
    /\ \E k \in 1..Len(log) : log[k].line[1] = "avoid creating other machines to host "

\* the charm URL without its revision
StripRevision(u) == Path(WithRevision(ParseURL(u), -1))

\* nothing in the bundle or in the model makes every run of the bundle fail:
\* no charm of the bundle is a bundle, and the services the model already has
\* run a charm the charm of the bundle can replace
Deployable(d, e) ==
    \A i \in 1..Len(d.services) :
        /\ Resolved(d.services[i].charm).series # "bundle"
        /\ d.services[i].name \in DOMAIN e.services
              => StripRevision(e.services[d.services[i].name].charm)
                    = StripRevision(URLString(Resolved(d.services[i].charm)))

\* the run at hand, in which no remote call failed, follows a run of the same
\* bundle that a failed remote call ended at one of its changes
Recovery ==
    /\ run >= 2
    /\ prev.data = data
    /\ prev.pc = "returned"
    /\ prev.err # <<>>
    /\ Head(prev.err) = "cannot deploy bundle"
    /\ start.failures > prev.start.failures
    /\ failures = start.failures
    /\ Deployable(data, prev.start.env)
    /\ changes = FromData(data)

NumUnitsIn(e, service) == Cardinality(UnitsOf(e.units, service))

C4_Requirements ==
    pc \in {"loop", "returned"} =>
        /\ \A i \in 1..Len(changes) : \A r \in 1..Len(changes[i].requires) :
              \E j \in 1..(i - 1) : changes[j].id = changes[i].requires[r]
        /\ idx <= Len(changes) =>
              \A r \in 1..Len(changes[idx].requires) :
                 \E j \in 1..(idx - 1) :
                    /\ changes[j].id = changes[idx].requires[r]
                    /\ Applied(changes[j])

\* the loop is at a change that requires two changes
C4_Witness ==
    /\ pc = "loop"
    /\ idx <= Len(changes)
    /\ Len(changes[idx].requires) >= 2
    /\ \A r \in 1..Len(changes[idx].requires) :
          \E j \in 1..(idx - 1) :
             changes[j].id = changes[idx].requires[r] /\ Applied(changes[j])

\* C5: every placeholder a handler resolves, the service of a unit, the
\* service of an endpoint of a relation, the parent of a container and the
\* target of a placed unit, resolves to a value that is not empty.
C5_PlaceholderSoundness ==
    \A k \in 1..Len(resolved) : resolved[k].value # <<>>

\* the run made the given call at the change the loop is at
CallsAt(ops, i) == {k \in 1..Len(calls) : calls[k].op \in ops /\ calls[k].idx = i}

\* a token of the error
ErrHas(e, t) == \E i \in 1..Len(e) : e[i] = t

\* C6: ServiceSetCharm is called only for a service of the model whose charm
\* URL is not the URL of the charm of the bundle, the two being the same once
\* the schema and the revision are taken away.
C6_UpgradeCompatibility ==
    [][\A k \in (Len(calls) + 1)..Len(calls') :
          calls'[k].op = "ServiceSetCharm" =>
             LET service == changes[idx].params.service
                 ch == Lookup(results, <<"resolved-">> \o changes[idx].params.charm)
             IN  /\ changes[idx].kind = "AddService"
                 /\ service \in DOMAIN env.services
                 /\ env.services[service].charm # ch
                 /\ StripRevision(env.services[service].charm) = StripRevision(ch)]_vars

\* a service was upgraded, and another one was reused with no upgrade
C6_Witness ==
    /\ CallsOf({"ServiceSetCharm"}) # {}
    /\ \E k \in 1..Len(log) : log[k].line[1] = "upgraded charm for existing service "
    /\ \E k \in 1..Len(log) : log[k].line[1] = "reusing service "

\* the run ended at an AddService change with the error of upgradeCharm
IncompatibleUpgrade ==
    /\ pc = "returned"
    /\ ErrHas(err, " is incompatible with existing charm ")

\* C7: an incompatible upgrade ends the run.  No run goes past the AddService
\* change of a service the model had with a charm that differs from the charm
\* of the bundle in more than its revision; the run returns the error of
\* upgradeCharm, the service keeps its charm and its options, no later
\* change is applied, and no machine, unit or relation is added.
C7_IncompatibleUpgrade ==
    /\ pc \in {"loop", "returned"} =>
          \A j \in 1..Len(changes) :
             /\ j < idx
             /\ changes[j].kind = "AddService"
             /\ changes[j].params.service \in DOMAIN start.env.services
             => StripRevision(start.env.services[changes[j].params.service].charm)
                   = StripRevision(Lookup(results,
                                          <<"resolved-">> \o changes[j].params.charm))
    /\ IncompatibleUpgrade =>
          /\ idx <= Len(changes)
          /\ changes[idx].kind = "AddService"
          /\ Head(err) = "cannot deploy bundle"
          /\ env.services[changes[idx].params.service]
                = start.env.services[changes[idx].params.service]
          /\ \A j \in idx..Len(changes) :
                changes[j].kind \in {"AddService", "AddMachine", "AddUnit"}
                   => ~Applied(changes[j])
          /\ \A k \in 1..Len(calls) : calls[k].idx <= idx
          /\ CallsAt({"ServiceSetCharm", "ServiceSetYAML"}, idx) = {}
          /\ CallsOf({"AddMachines", "AddServiceUnits", "AddRelation"}) = {}

\* the run ended at a service that has options, in the bundle and in the model
C7_Witness ==
    /\ IncompatibleUpgrade
    /\ DOMAIN changes[idx].params.options # {}
    /\ DOMAIN env.services[changes[idx].params.service].options # {}
    /\ idx < Len(changes)

\* the error is one of the bundle itself: Verify refused it, or one of its
\* charms is a bundle
ValidationError(e) ==
    /\ e # <<>>
    /\ \/ ErrHas(e, "invalid bundle")
       \/ ErrHas(e, "expected charm URL, got bundle URL")

\* C8: a run that ends with a validation error has made no remote call.
C8_ValidationFirst ==
    pc = "returned" /\ ValidationError(err) => calls = <<>>

\* a handler returned an error
HandlerError ==
    /\ pc = "returned"
    /\ err # <<>>
    /\ CallsOf({"WatchAll"}) # {}
    /\ err # Annotate(RemoteError, "cannot watch environment")
    /\ err # <<"unknown change type">>

\* what the changes before the given position added is in the model
Live(i) ==
    \A j \in 1..Len(changes) : j < i =>
        LET ch == changes[j]
            r == Lookup(results, ch.id)
        IN  /\ ch.kind = "AddCharm"
                  => Lookup(results, <<"resolved-">> \o ch.params.charm) \in env.charms
            /\ ch.kind = "AddService" => ch.params.service \in DOMAIN env.services
            /\ ch.kind = "AddMachine" => r = <<>> \/ r \in env.machines
            /\ ch.kind = "AddUnit"
                  => r = <<>> \/ r \in env.machines \/ r \in DOMAIN env.units

\* the model has all that the other model has
Includes(e, f) ==
    /\ f.charms \subseteq e.charms
    /\ DOMAIN f.services \subseteq DOMAIN e.services
    /\ DOMAIN f.units \subseteq DOMAIN e.units
    /\ f.machines \subseteq e.machines
    /\ f.relations \subseteq e.relations

\* C9: an error of a handler ends the run.  The error is returned annotated
\* with "cannot deploy bundle", the change it came from is the last one the
\* loop came to, no call is made after those of that change, no result is
\* recorded for that change or a later one, and what the earlier changes and
\* the earlier runs added is still in the model.
C9_TerminalError ==
    HandlerError =>
        /\ Head(err) = "cannot deploy bundle"
        /\ Len(err) >= 2
        /\ idx <= Len(changes)
        /\ \A k \in 1..Len(calls) : calls[k].idx <= idx
        /\ \A j \in idx..Len(changes) :
              changes[j].kind \in {"AddService", "AddMachine", "AddUnit"}
                 => ~Applied(changes[j])
        /\ Live(idx)
        /\ Includes(env, start.env)

\* a remote call of a handler failed after the run had added a unit
C9_Witness ==
    /\ HandlerError
    /\ failures > start.failures
    /\ calls[Len(calls)].op \in MutatingCalls
    /\ CallsOf({"AddServiceUnits"}) # {}
    /\ DOMAIN env.units # DOMAIN start.env.units
    /\ idx < Len(changes)

\* C10: from WatchAll on the watcher is open, it is stopped when deployBundle
\* returns, and it is stopped once, however deployBundle returns.
C10_WatcherStopped ==
    /\ pc = "loop" => watcher.state = "open" /\ watcher.stops = 0
    /\ /\ pc \in {"returned", "panicked"}
       /\ CallsOf({"WatchAll"}) # {}
       /\ err # Annotate(RemoteError, "cannot watch environment")
       => watcher.state = "stopped" /\ watcher.stops = 1

\* deployBundle returned after watcher.Next failed in resolveMachine
C10_Witness ==
    /\ pc = "returned"
    /\ calls # <<>>
    /\ calls[Len(calls)].op = "Next"
    /\ ErrHas(err, "cannot update environment status")
    /\ watcher.stops = 1

\* the placeholders resolveMachine resolved in this run
MachinesResolved == {k \in 1..Len(resolved) : resolved[k].arg \in {"to", "parentId"}}

\* what resolve gives for the placeholder resolveMachine was called with
Raw(k) ==
    resolve(IF resolved[k].arg = "to" THEN changes[resolved[k].idx].params.to
            ELSE changes[resolved[k].idx].params.parentId,
            results)

\* C11: resolveMachine gives, for a placeholder that resolves to a unit name,
\* the machine the view has for that unit, and never an empty one; for any
\* other placeholder it gives what resolve gives, and the handler has not
\* called watcher.Next.
C11_ResolveMachine ==
    \A k \in MachinesResolved :
        IF IsValidUnit(Raw(k))
        THEN /\ resolved[k].value # <<>>
             /\ resolved[k].value = Lookup(unitStatus, Raw(k))
        ELSE /\ resolved[k].value = Raw(k)
             /\ CallsAt({"Next"}, resolved[k].idx) = {}

\* resolveMachine gave the machine of a unit after watcher.Next was called,
\* and it gave a machine for another placeholder
C11_Witness ==
    /\ \E k \in MachinesResolved :
          IsValidUnit(Raw(k)) /\ CallsAt({"Next"}, resolved[k].idx) # {}
    /\ \E k \in MachinesResolved : ~IsValidUnit(Raw(k)) /\ Raw(k) # <<>>

\* resolveMachine is in its loop: the handler of the change waits for the
\* machine of a unit
Waiting ==
    /\ pc = "loop"
    /\ idx <= Len(changes)
    /\ \/ /\ changes[idx].kind = "AddMachine"
          /\ addMachineWaits(St, changes[idx].id, changes[idx].params)
       \/ /\ changes[idx].kind = "AddUnit"
          /\ addUnitWaits(St, changes[idx].id, changes[idx].params)

\* resolveMachine returned in the handler of the change i after it called
\* watcher.Next: it gave the machine of the unit
Got(i) ==
    \E k \in MachinesResolved :
        /\ resolved[k].idx = i
        /\ IsValidUnit(Raw(k))
        /\ resolved[k].value # <<>>
        /\ CallsAt({"Next"}, i) # {}

\* the error of watcher.Next ended the run
NextFailed ==
    /\ pc = "returned"
    /\ ErrHas(err, "cannot update environment status")
    /\ watcher.state = "stopped"

\* C12: a run of deployBundle returns, and a resolveMachine that waits
\* returns: its handler goes on with the machine of the unit, to the change
\* that follows or to an error of its own, or the error of watcher.Next ends
\* the run.  The steps of the run are fair, the deltas of
\* the watcher arriving.
C12_Termination ==
    /\ (pc = "loop") ~> (pc \in {"returned", "panicked"})
    /\ (Waiting /\ ~Got(idx - 1)) ~> (Got(idx - 1) \/ Got(idx) \/ NextFailed)

\* a run returned without error after resolveMachine called watcher.Next
\* more than once for one unit
C12_Witness ==
    /\ pc = "returned"
    /\ err = <<>>
    /\ \E i \in 1..Len(changes) :
          /\ Cardinality(CallsAt({"Next"}, i)) > 1
          /\ Got(i)

\* the AddUnit changes of the plan for the given service
UnitChangesOf(service) ==
    {i \in 1..Len(changes) :
        /\ changes[i].kind = "AddUnit"
        /\ resolve(changes[i].params.service, results) = <<service>>}

\* the lines of the log that start with the given words and name the service
LinesOf(words, service) ==
    {l \in 1..Len(log) :
        /\ Len(log[l].line) >= 2
        /\ log[l].line[1] = words
        /\ log[l].line[2] = service}

\* a run returned no error for a bundle that declares more units of the
\* service than the model had, the model having some
ScaleUp(svc) ==
    /\ pc = "returned"
    /\ err = <<>>
    /\ NumUnitsIn(start.env, svc.name) > 0
    /\ NumUnitsIn(start.env, svc.name) < svc.numUnits

\* C13: scale up.  When a run returns no error for a bundle that declares n
\* units of a service the model had k units of, 0 < k < n, AddServiceUnits
\* was called n - k times for the service, k AddUnit changes of the service
\* were skipped, the log has one line "avoid adding new units to service",
\* which says n units and comes after the lines of the added units, and the
\* service has n units in the model.
C13_ScaleUp ==
    \A i \in 1..Len(data.services) :
        LET svc == data.services[i]
            k == NumUnitsIn(start.env, svc.name)
            n == svc.numUnits
            called == {j \in UnitChangesOf(svc.name) :
                          CallsAt({"AddServiceUnits"}, j) # {}}
            avoid == LinesOf("avoid adding new units to service ", svc.name)
        IN  ScaleUp(svc) =>
              /\ Cardinality(called) = n - k
              /\ \A j \in called : Cardinality(CallsAt({"AddServiceUnits"}, j)) = 1
              /\ Cardinality(UnitChangesOf(svc.name) \ called) = k
              /\ Cardinality(avoid) = 1
              /\ \A l \in avoid :
                    /\ log[l].line = <<"avoid adding new units to service ", svc.name,
                                       ": ">> \o existingUnitsMessage(n)
                    /\ \A a \in LinesOf("added ", svc.name) : a < l
              /\ Cardinality(LinesOf("added ", svc.name)) = n - k
              /\ NumUnitsIn(env, svc.name) = n

\* a run scaled a service up from one unit to two
C13_Witness ==
    \E i \in 1..Len(data.services) :
        /\ ScaleUp(data.services[i])
        /\ NumUnitsIn(start.env, data.services[i].name) = 1
        /\ NumUnitsIn(env, data.services[i].name) = 2
        /\ CallsOf({"AddServiceUnits"}) # {}

\* a run against the empty model returned no error
FirstDeploy ==
    /\ pc = "returned"
    /\ err = <<>>
    /\ start.env = EmptyEnv

\* the position of the change with the given id
ChangeAt(id) == CHOOSE i \in 1..Len(changes) : changes[i].id = id

\* the unit the AddUnit change at the given position added, from its line
\* "added <unit> unit to ..."
UnitAddedAt(i) ==
    LET l == CHOOSE l \in 1..Len(log) : log[l].idx = i /\ log[l].line[1] = "added "
    IN  SubSeq(log[l].line, 2, 4)

\* the machine that hosts what the change at the given position made: the
\* machine of an AddMachine change, the machine of the unit of an AddUnit
\* change
HostAt(i) ==
    IF changes[i].kind = "AddMachine" THEN results[changes[i].id]
    ELSE env.units[UnitAddedAt(i)]

MachineChanges == {i \in 1..Len(changes) : changes[i].kind = "AddMachine"}

\* C14: placement in a first deployment.  After a run against the empty
\* model that returned no error, a unit placed in what another change made
\* is in the machine that hosts it; a container asked in what another change
\* made is a new container of the asked type in the machine that hosts it;
\* any other machine change made a machine, or a container in a machine, no
\* other change made; and the units of the bundle of
\* TestDeployBundleMachinesUnitsPlacement are wp/0 in 0, wp/1 in 1/lxc/0,
\* sql/0 in 0/lxc/0 and sql/1 in 2.
C14_Placement ==
    FirstDeploy =>
        /\ \A i \in 1..Len(changes) :
              changes[i].kind = "AddUnit" /\ changes[i].params.to # <<>> =>
                  env.units[UnitAddedAt(i)] = HostAt(ChangeAt(Tail(changes[i].params.to)))
        /\ \A i \in MachineChanges :
              LET m == results[changes[i].id]
                  p == changes[i].params
              IN  /\ m \in env.machines
                  /\ \A j \in MachineChanges \ {i} : results[changes[j].id] # m
                  /\ IF p.containerType = "" THEN Len(m) = 1
                     ELSE /\ Len(m) = 5
                          /\ SubSeq(m, 2, 4) = <<"/", p.containerType, "/">>
                          /\ <<m[1]>> \in env.machines
                          /\ IF p.parentId # <<>>
                             THEN <<m[1]>> = HostAt(ChangeAt(Tail(p.parentId)))
                             ELSE \A j \in MachineChanges :
                                      results[changes[j].id] # <<m[1]>>
        /\ data = BundlePlaced =>
              env.units = [u \in {<<"wp", "/", "0">>, <<"wp", "/", "1">>,
                                  <<"sql", "/", "0">>, <<"sql", "/", "1">>} |->
                              CASE u = <<"wp", "/", "0">> -> <<"0">>
                                [] u = <<"wp", "/", "1">> -> <<"1", "/", "lxc", "/", "0">>
                                [] u = <<"sql", "/", "0">> -> <<"0", "/", "lxc", "/", "0">>
                                [] u = <<"sql", "/", "1">> -> <<"2">>]

\* the bundle of TestDeployBundleMachinesUnitsPlacement was deployed in the
\* empty model
C14_Witness ==
    /\ FirstDeploy
    /\ data = BundlePlaced
    /\ CallsOf({"AddMachines"}) # {}
    /\ CallsOf({"AddServiceUnits"}) # {}

\* the services of the bundle that are placed in another service, 'to: [B]'
PlacedInService ==
    {i \in 1..Len(data.services) :
        /\ data.services[i].to # <<>>
        /\ \A k \in 1..Len(data.services[i].to) :
              data.services[i].to[k] = ToService(data.services[i].to[1].service)}

\* C15: co-location on a service.  When the service A of the bundle is placed
\* 'to: [B]', every unit A/i a run adds is added to the machine that hosts
\* B/i in the model.
C15_CoLocation ==
    \A a \in PlacedInService :
        \A l \in LinesOf("added ", data.services[a].name) :
            LET line == log[l].line
                b == data.services[a].to[1].service
            IN  /\ line[5] = " unit to machine "
                /\ <<b, "/", line[4]>> \in DOMAIN env.units
                /\ SubSeq(line, 6, Len(line)) = env.units[<<b, "/", line[4]>>]

\* C15, in a run against the empty model: the units of B are added by the
\* run, and the handler of the unit A/i waits for the machine of B/i
C15_FirstDeploy == start.env = EmptyEnv => C15_CoLocation

\* a run against the empty model added two units placed in a service, after
\* it waited for the machine of the unit of that service
C15_Witness ==
    /\ FirstDeploy
    /\ \E a \in PlacedInService :
          /\ Cardinality(LinesOf("added ", data.services[a].name)) = 2
          /\ \E l \in LinesOf("added ", data.services[a].name) :
                CallsAt({"Next"}, log[l].idx) # {}

\* the lines the handler of the change at the given position logged
LinesAt(i) == {l \in 1..Len(log) : log[l].idx = i}

\* the lines of the skip and reuse paths
SkipLines ==
    {l \in 1..Len(log) :
        \/ log[l].line[1] \in {"reusing service ",
                               "avoid creating other machines to host ",
                               "avoid adding new units to service "}
        \/ log[l].line[Len(log[l].line)] = " are already related"}

\* C16: a first deployment takes no skip or reuse path.  In a run against the
\* empty model, the handler of every AddService change that returned no error
\* logged "service <name> deployed", of every AddRelation change "related
\* ...", of every AddMachine change called AddMachines and stored a machine
\* of the model, of every AddUnit change called AddServiceUnits and logged
\* the unit it added; the log has no "reusing", "already related" or "avoid"
\* line; and when the run returns no error, every service of the bundle has
\* the declared number of units.
C16_FirstDeploy ==
    start.env = EmptyEnv /\ pc \in {"loop", "returned"} =>
        /\ SkipLines = {}
        /\ \A i \in 1..Len(changes) :
              (i < idx \/ (pc = "returned" /\ err = <<>>)) =>
                  LET ch == changes[i]
                  IN  CASE ch.kind = "AddService" ->
                             \E l \in LinesAt(i) :
                                 /\ log[l].line[1] = "service "
                                 /\ log[l].line[2] = ch.params.service
                                 /\ log[l].line[3] = " deployed (charm: "
                        [] ch.kind = "AddRelation" ->
                             \E l \in LinesAt(i) : log[l].line[1] = "related "
                        [] ch.kind = "AddMachine" ->
                             /\ Cardinality(CallsAt({"AddMachines"}, i)) = 1
                             /\ results[ch.id] \in env.machines
                             /\ results[ch.id] \notin start.env.machines
                        [] ch.kind = "AddUnit" ->
                             /\ Cardinality(CallsAt({"AddServiceUnits"}, i)) = 1
                             /\ \E l \in LinesAt(i) :
                                   /\ log[l].line[1] = "added "
                                   /\ SubSeq(log[l].line, 2, 4) \in DOMAIN env.units
                        [] OTHER -> TRUE
        /\ pc = "returned" /\ err = <<>> =>
              \A i \in 1..Len(data.services) :
                  NumUnitsIn(env, data.services[i].name) = data.services[i].numUnits

\* a run against the empty model returned no error after it applied changes
\* that add services, machines and four units
C16_Witness ==
    /\ FirstDeploy
    /\ \E i \in 1..Len(changes) : changes[i].kind = "AddMachine"
    /\ \E i \in 1..Len(changes) : changes[i].kind = "AddUnit"
    /\ \E i \in 1..Len(changes) : changes[i].kind = "AddService"
    /\ Cardinality({l \in 1..Len(log) : log[l].line[1] = "added "}) = 4

\* a run against the empty model of a bundle with a relation returned no error
C16_WitnessRelation ==
    /\ FirstDeploy
    /\ \E l \in 1..Len(log) : log[l].line[1] = "related "

\* what rand.Intn gives in a run that is followed to its end: the first
\* or the last of the existing machines
PickOf(policy, picks) ==
    IF policy = "first" THEN CHOOSE n \in picks : \A m \in picks : n <= m
    ELSE CHOOSE n \in picks : \A m \in picks : n >= m

\* the handler of the change the loop is at, with no call failing, no unit
\* seen before its machine, and rand.Intn as the policy says
Handle(st, policy) ==
    LET ch == st.changes[st.idx]
        c == [fail |-> "none", early |-> FALSE, pick |-> 1]
    IN  CASE ch.kind = "AddCharm" -> addCharm(st, ch.id, ch.params, c)
          [] ch.kind = "AddService" -> addService(st, ch.id, ch.params, c)
          [] ch.kind = "AddMachine" ->
               addMachine(st, ch.id, ch.params,
                          [c EXCEPT !.pick =
                              PickOf(policy,
                                     Picks(st, serviceForMachineChange(
                                                   st.changes, st.results, ch.id)))])
          [] ch.kind = "AddUnit" ->
               addUnit(st, ch.id, ch.params,
                       [c EXCEPT !.pick =
                           PickOf(policy,
                                  Picks(st, resolve(ch.params.service, st.results)))])
          [] ch.kind = "AddRelation" -> addRelation(st, ch.id, ch.params, c)
          [] ch.kind = "SetAnnotations" -> setAnnotations(st, ch.id, ch.params, c)
          [] OTHER -> Failed(st, <<"unknown change type">>)

\* whether the handler of the change the loop is at waits in resolveMachine
Waits(st) ==
    LET ch == st.changes[st.idx]
    IN  \/ ch.kind = "AddMachine" /\ addMachineWaits(st, ch.id, ch.params)
        \/ ch.kind = "AddUnit" /\ addUnitWaits(st, ch.id, ch.params)

\* the state in which the run ends when it is followed from the given state:
\* every call succeeds and watcher.Next returns the deltas the watcher has
RECURSIVE Finish(_, _)
Finish(st, policy) ==
    IF st.err # <<>> \/ st.idx > Len(st.changes) THEN st
    ELSE IF Waits(st)
    THEN IF st.watcher.queue = <<>> THEN st
         ELSE Finish([Call(st, "Next") EXCEPT
                         !.watcher.queue = <<>>,
                         !.unitStatus = ApplyDeltas(@, st.watcher.queue)],
                     policy)
    ELSE Finish([Handle(st, policy) EXCEPT !.idx = @ + 1], policy)

\* a run of the bundle the run before it deployed is at its first change
RepeatedRun ==
    /\ pc = "loop"
    /\ idx = 1
    /\ prev.run >= 1
    /\ data = prev.data

\* C17: the trace of a repeated deployment is deterministic.  Two runs of the
\* bundle of the run before, from the same state of the model, in which no
\* call fails, log the same lines and end with the same model, whichever
\* machine the skip paths of addMachine and addUnit pick as pseudo-result.
C17_Determinism ==
    RepeatedRun =>
        /\ Finish(St, "first").log = Finish(St, "last").log
        /\ Finish(St, "first").env = Finish(St, "last").env

\* C17, for a run against a model that a run of the same bundle left with
\* no error
C17_AfterCompleteRun == prev.err = <<>> /\ prev.pc = "returned" => C17_Determinism

\* the changes of the kinds of the planner
Known(cs) ==
    LET IsKnown(ch) == ch.kind # "Unknown"
    IN  SelectSeq(cs, IsKnown)

\* the first part of the identifiers of the changes of each kind
MethodOf(kind) ==
    CASE kind = "AddCharm" -> "addCharm"
      [] kind = "AddService" -> "deploy"
      [] kind = "AddMachine" -> "addMachines"
      [] kind = "AddUnit" -> "addUnit"
      [] kind = "AddRelation" -> "addRelation"
      [] kind = "SetAnnotations" -> "setAnnotations"

\* the number in the identifier of the change
NumberOf(ch) == Atoi(ch.id[3])

\* a run planned the changes of a bundle
Planned == pc \in {"loop", "returned"} /\ Verify(data)

CallSeqAt(i) ==
    LET At(call) == call.idx = i
    IN  SelectSeq(calls, At)

\* the error of the handler of the AddCharm change at the given position
\* ended the run
AddCharmFailed(i) ==
    /\ pc = "returned"
    /\ idx = i
    /\ Len(err) > 2
    /\ SubSeq(err, 1, 2) = <<"cannot deploy bundle", "cannot add charm">>

\* the handler of the AddCharm change at the given position added the charm
CharmAdded(i) ==
    /\ i < idx
    /\ URLString(Resolved(changes[i].params.charm)) \in env.charms
    /\ \E l \in LinesAt(i) : log[l].line[1] = "added charm "

\* C19: authorization retry.  In the handler of a change that adds a charm of
\* the charm store, when AddCharm returns no error nothing else is called;
\* when it returns a discharge required or interaction required error,
\* authorize is called once and then, unless authorize failed,
\* AddCharmWithAuthorization once, with a macaroon whose caveat names the
\* URL of the charm, and the charm is added unless this call failed; when it
\* returns another error, nothing else is called.  An error of authorize, of
\* AddCharmWithAuthorization or of AddCharm ends the run.
C19_AuthorizationRetry ==
    \A i \in 1..Len(changes) :
        LET q == CallSeqAt(i)
        IN  q # <<>> /\ q[1].op = "AddCharm" =>
              CASE q[1].arg = <<>> -> Len(q) = 1 /\ CharmAdded(i)
                [] q[1].arg \in {DischargeRequired, <<"interaction required">>} ->
                     /\ Len(q) \in {2, 3}
                     /\ q[2].op = "authorize"
                     /\ IF Len(q) = 2 THEN AddCharmFailed(i)
                        ELSE /\ q[3].op = "AddCharmWithAuthorization"
                             /\ q[3].arg.caveats =
                                   <<<<"is-entity ">>
                                     \o URLString(Resolved(changes[i].params.charm))>>
                             /\ CharmAdded(i) \/ AddCharmFailed(i)
                [] OTHER -> Len(q) = 1 /\ AddCharmFailed(i)

\* a run added a charm with a macaroon after a run that ended when the
\* macaroon could not be obtained
C19_Witness ==
    /\ ErrHas(prev.err, "cannot get macaroon")
    /\ \E i \in 1..Len(changes) :
          /\ Len(CallSeqAt(i)) = 3
          /\ CharmAdded(i)

\* a run ended when AddCharm returned an error that is not one of the bakery
C19_WitnessOtherError ==
    \E i \in 1..Len(changes) :
        /\ AddCharmFailed(i)
        /\ Len(CallSeqAt(i)) = 1
        /\ CallSeqAt(i)[1].op = "AddCharm"
        /\ CallSeqAt(i)[1].arg = RemoteError

\* a run ended when AddCharmWithAuthorization failed
C19_WitnessRetryFailed ==
    \E i \in 1..Len(changes) :
        /\ AddCharmFailed(i)
        /\ Len(CallSeqAt(i)) = 3

\* the calls a step adds
NewCalls == SubSeq(calls', Len(calls) + 1, Len(calls'))

\* C20, as claimed: every update of the view of the units is made while a
\* mutex is held.
C20_MutexProtected == [][unitStatus' # unitStatus => MutexesHeld # {}]_vars

\* C20: the view of the units is written by the code that applies the changes
\* only, in its own steps: by deployBundle when it builds the view from the
\* status, by addUnit for the unit it added, and by updateUnitStatus, which
\* resolveMachine calls while it waits for the machine of a unit and which
\* calls nothing but watcher.Next.  No mutex is held, and none is needed: no
\* handler reads the view between the steps of an update.
C20_SynchronousUpdates ==
    [][unitStatus' # unitStatus =>
          \/ run' = run + 1
          \/ /\ run' = run
             /\ AtChange("AddUnit")
             /\ ~Waiting
             /\ \E k \in 1..Len(NewCalls) : NewCalls[k].op = "AddServiceUnits"
          \/ /\ run' = run
             /\ Waiting
             /\ Len(NewCalls) = 1
             /\ NewCalls[1].op = "Next"
             /\ idx' = idx]_vars

\* updateUnitStatus stored the machine resolveMachine was waiting for
C20_Witness ==
    /\ pc = "loop"
    /\ ~Waiting
    /\ calls # <<>>
    /\ calls[Len(calls)].op = "Next"
    /\ calls[Len(calls)].idx = idx

\* the units the view has of every service of the bundle are the units the
\* model has of it
CountsAgree ==
    \A i \in 1..Len(data.services) :
        Len(machinesForService(unitStatus, <<data.services[i].name>>))
            = NumUnitsIn(env, data.services[i].name)

\* C21, as claimed: the tracker is a loop of its own, so that whenever the
\* watcher has deltas while the changes are applied, the step that takes them
\* and stores them in the view can be taken, whether or not the handler of
\* the change waits for the machine of a unit.
C21_ConcurrentTracker ==
    pc = "loop" /\ idx <= Len(changes) /\ watcher.queue # <<>>
        => ENABLED updateUnitStatus

\* C21: there is no tracker beside the loop of deployBundle.  watcher.Next is
\* called by updateUnitStatus only, which resolveMachine calls while it waits
\* for the machine of a unit; at any other time the deltas stay in the
\* watcher.  The handlers nevertheless count, for their skip decisions, every
\* unit the model has: the view is built from the status and addUnit stores
\* the unit it added.
C21_TrackerInResolveMachine ==
    /\ [](pc = "loop" => CountsAgree)
    /\ [][(\E k \in 1..Len(NewCalls) : NewCalls[k].op = "Next")
             => Waiting /\ run' = run /\ Len(NewCalls) = 1]_vars

\* a handler that does not wait is about to decide whether it skips its unit
\* while the watcher holds a delta with a machine the view does not have
\* yet, after watcher.Next was called for an earlier change
C21_Witness ==
    /\ AtChange("AddUnit")
    /\ ~Waiting
    /\ CallsOf({"Next"}) # {}
    /\ \E k \in 1..Len(watcher.queue) :
          /\ watcher.queue[k].name \in DOMAIN unitStatus
          /\ watcher.queue[k].machineId # <<>>
          /\ unitStatus[watcher.queue[k].name] = <<>>

\* C22, as claimed: once the user asked to cancel the run, the first handler
\* that makes a remote call, watcher.Next included, is aborted: the run
\* returns an error and the watcher is stopped, so that no change that needs
\* a call is applied after the request.
C22_Cancellation ==
    cancelledAt >= 0 /\ Len(calls) > cancelledAt =>
        /\ pc = "returned"
        /\ err # <<>>
        /\ watcher.state = "stopped"

\* C22: deployBundle cannot be cancelled.  After the user asked to cancel the
\* run, the watcher stays open and the loop goes on: the run returns no error
\* only when it has applied every change, and it returns early only with the
\* error of a handler or of watcher.Next.  On every return the watcher is
\* stopped, once; after an error no later change is applied, and what the
\* earlier changes and the earlier runs added stays in the model.
C22_NoCancellation ==
    cancelledAt >= 0 =>
        /\ pc = "loop" => watcher.state = "open" /\ watcher.stops = 0
        /\ pc = "returned" => watcher.state = "stopped" /\ watcher.stops = 1
        /\ pc = "returned" /\ err = <<>> =>
              /\ idx > Len(changes)
              /\ \A j \in 1..Len(changes) : Applied(changes[j])
        /\ pc = "returned" /\ err # <<>> =>
              /\ idx <= Len(changes)
              /\ \A k \in 1..Len(calls) : calls[k].idx <= idx
              /\ Live(idx)
              /\ Includes(env, start.env)

\* a run the user asked to cancel before its third call went on to add units
\* and returned no error
C22_Witness ==
    /\ cancelledAt \in 0..2
    /\ pc = "returned"
    /\ err = <<>>
    /\ \E k \in 1..Len(calls) : k > cancelledAt /\ calls[k].op = "AddServiceUnits"
    /\ DOMAIN env.units # {}

\* a run the user asked to cancel returned the error of a call that failed
\* later, after it had added a service
C22_WitnessError ==
    /\ cancelledAt \in 0..2
    /\ pc = "returned"
    /\ err # <<>>
    /\ failures > start.failures
    /\ Len(calls) > cancelledAt + 2
    /\ DOMAIN env.services # {}

\* the place of each kind of change in the order C23 claims
Rank(kind) ==
    CASE kind = "AddCharm" -> 1
      [] kind = "AddMachine" -> 2
      [] kind = "AddService" -> 3
      [] kind = "AddUnit" -> 4
      [] kind = "AddRelation" -> 5
      [] kind = "SetAnnotations" -> 6

\* C23, as claimed: the changes of the plan are grouped by kind, in the order
\* AddCharm, AddMachine, AddService, AddUnit, AddRelation, SetAnnotations.
C23_StrictOrder ==
    Planned =>
        LET cs == Known(changes)
        IN  \A i, j \in 1..Len(cs) : i < j => Rank(cs[i].kind) <= Rank(cs[j].kind)

\* the first words of the lines of the log, in order
FirstWords == [l \in 1..Len(log) |-> log[l].line[1]]

\* C23: the plan is ordered by what the changes require and not by kind.
\* Every change follows the changes it requires (a container its parent, a
\* unit its service and what it is placed in); the AddService of a service
\* follows at once the AddCharm of its charm, or an earlier service has that
\* charm; the SetAnnotations of an entity follows at once the change of the
\* entity; the changes of the charms and services come first, the AddRelation
\* changes before every AddUnit change, and the machines that units are
\* placed in are among the units.  The lines of the first deployments of the
\* bundles of TestDeployBundleSuccess and
\* TestDeployBundleMachinesUnitsPlacement come in the order the tests expect.
C23_RequirementOrder ==
    Planned =>
        LET cs == Known(changes)
        IN  /\ \A i \in 1..Len(cs) : \A r \in 1..Len(cs[i].requires) :
                  \E j \in 1..(i - 1) : cs[j].id = cs[i].requires[r]
            /\ \A i \in 1..Len(cs) :
                  /\ cs[i].kind = "AddService" =>
                        /\ i > 1
                        /\ \/ /\ cs[i - 1].kind = "AddCharm"
                              /\ cs[i - 1].params.charm = cs[i].params.charm
                           \/ \E j \in 1..(i - 1) :
                                 /\ cs[j].kind = "AddService"
                                 /\ cs[j].params.charm = cs[i].params.charm
                  /\ cs[i].kind = "SetAnnotations" =>
                        i > 1 /\ Placeholder(cs[i - 1].id) = cs[i].params.id
                  /\ cs[i].kind = "AddRelation" =>
                        \A j \in 1..(i - 1) : cs[j].kind # "AddUnit"
                  /\ cs[i].kind \in {"AddCharm", "AddService"} =>
                        \A j \in 1..(i - 1) :
                           cs[j].kind \in {"AddCharm", "AddService", "SetAnnotations"}
            /\ FirstDeploy /\ data = BundleSimple =>
                  FirstWords = <<"added charm ", "service ", "added charm ", "service ",
                                 "related ", "added ", "added ">>
            /\ FirstDeploy /\ data = BundlePlaced =>
                  FirstWords = <<"added charm ", "service ", "added charm ", "service ",
                                 "service ", "created new machine ",
                                 "created new machine ", "added ", "created ",
                                 "created new machine ", "created ", "added ",
                                 "added ", "added ">>

\* a first deployment is complete of a bundle whose plan has a machine after
\* a unit and a relation or a service after a charm and a service
C23_Witness ==
    /\ FirstDeploy
    /\ data \in {BundleSimple, BundlePlaced}
    /\ \E i, j \in 1..Len(changes) :
          /\ i < j
          /\ Rank(changes[i].kind) > Rank(changes[j].kind)

\* the positions of the AddService changes whose handler called ServiceDeploy
ServiceChanges ==
    {i \in 1..Len(changes) :
        changes[i].kind = "AddService" /\ CallsAt({"ServiceDeploy"}, i) # {}}

\* the charm URL the handler of the AddService change deploys
CharmOf(i) == Lookup(results, <<"resolved-">> \o changes[i].params.charm)

\* the run ended at the change at the given position with an error that has
\* the given token
EndedAt(i, token) == pc = "returned" /\ idx = i /\ ErrHas(err, token)

\* ServiceDeploy failed with "service already exists" in the handler of the
\* AddService change, and upgradeCharm found the service to have the charm of
\* the bundle
Reused(i) ==
    /\ changes[i].params.service \in DOMAIN start.env.services
    /\ start.env.services[changes[i].params.service].charm = CharmOf(i)
    /\ CallsAt({"ServiceGetCharmURL"}, i) # {}
    /\ ~EndedAt(i, "cannot retrieve info for service")

\* ServiceDeploy returned an error that does not end in "service already
\* exists"
DeployFailed(i) ==
    /\ CallsAt({"ServiceGetCharmURL"}, i) = {}
    /\ \A l \in LinesAt(i) : log[l].line[3] # " deployed (charm: "

\* what C24 says of a service that is reused, but for the return
ReusedUnchanged(i) ==
    LET service == changes[i].params.service
    IN  /\ \E l \in LinesAt(i) :
              log[l].line = <<"reusing service ", service, " (charm: ">>
                            \o CharmOf(i) \o <<")">>
        /\ CallsAt({"ServiceSetCharm"}, i) = {}
        /\ env.services[service].charm = start.env.services[service].charm

\* what C24 says of any other error of ServiceDeploy
DeployErrorTerminal(i) ==
    /\ pc = "returned"
    /\ idx = i
    /\ SubSeq(err, 1, 2) = <<"cannot deploy bundle", "cannot deploy service">>
    /\ ~HasSuffix(err, "service already exists")
    /\ changes[i].id \notin DOMAIN results
    /\ Len(CallSeqAt(i)) = 1
    /\ LinesAt(i) = {}
    /\ Lookup(env.services, changes[i].params.service)
          = Lookup(start.env.services, changes[i].params.service)

\* C24, as claimed: a service that is reused has its name recorded and its
\* handler returns no error.
C24_ReuseReturnsSuccess ==
    \A i \in ServiceChanges :
        /\ Reused(i) =>
              /\ ReusedUnchanged(i)
              /\ Lookup(results, changes[i].id) = <<changes[i].params.service>>
              /\ i < idx
        /\ DeployFailed(i) => DeployErrorTerminal(i)

\* C24: when ServiceDeploy fails with "service already exists" and the
\* service has the charm of the bundle, the handler logs "reusing service",
\* does not call ServiceSetCharm and leaves the charm of the service as it
\* was; then, unless the service has options and ServiceSetYAML fails, it
\* records the name of the service and returns no error.  When ServiceSetYAML
\* fails, the error ends the run and nothing is recorded.  Any other error of
\* ServiceDeploy ends the run, and nothing is recorded.
C24_ReuseService ==
    \A i \in ServiceChanges :
        /\ Reused(i) =>
              /\ ReusedUnchanged(i)
              /\ \/ /\ i < idx
                    /\ Lookup(results, changes[i].id) = <<changes[i].params.service>>
                 \/ /\ EndedAt(i, "cannot set options for service")
                    /\ DOMAIN changes[i].params.options # {}
                    /\ changes[i].id \notin DOMAIN results
        /\ DeployFailed(i) => DeployErrorTerminal(i)

\* a run reused a service and went on, after a run that ended when
\* ServiceDeploy failed
C24_Witness ==
    /\ \E i \in ServiceChanges : Reused(i) /\ i < idx
    /\ ErrHas(prev.err, "cannot deploy service")

\* a run ended when ServiceSetYAML failed for a service that is reused
C24_WitnessOptionsFailed ==
    \E i \in ServiceChanges : Reused(i) /\ EndedAt(i, "cannot set options for service")

\* a run ended when ServiceDeploy failed
C24_WitnessDeployFailed ==
    \E i \in ServiceChanges : DeployFailed(i) /\ DeployErrorTerminal(i)

\* the lines by which the handler of the AddService change says that the
\* service was deployed, reused or upgraded
StepLines(i) ==
    {l \in LinesAt(i) :
        \/ log[l].line[1] \in {"reusing service ", "upgraded charm for existing service "}
        \/ log[l].line[1] = "service " /\ log[l].line[3] = " deployed (charm: "}

\* the lines "service <name> configured" of the handler of the change
ConfiguredLines(i) ==
    {l \in LinesAt(i) :
        log[l].line = <<"service ", changes[i].params.service, " configured">>}

\* the options the service had before the run
OptionsBefore(service) ==
    IF service \in DOMAIN start.env.services
    THEN start.env.services[service].options
    ELSE EmptyMap

\* C25: in the handler of an AddService change that has deployed, reused or
\* upgraded the service, ServiceSetYAML is called if and only if the service
\* of the bundle has an option, once and as the last call; "service <name>
\* configured" is logged only after the call succeeded, after the line of the
\* deployment, reuse or upgrade, and the service then has the options of the
\* bundle; the handler then records the name of the service and returns no
\* error.  When ServiceSetYAML fails the run ends with its error, nothing is
\* logged or recorded and the options of the service are as they were.
C25_ServiceOptions ==
    \A i \in ServiceChanges :
        LET p == changes[i].params
            q == CallSeqAt(i)
            set == CallsAt({"ServiceSetYAML"}, i)
            failed == EndedAt(i, "cannot set options for service")
        IN  /\ StepLines(i) # {} => (set # {} <=> DOMAIN p.options # {})
            /\ set # {} =>
                  /\ Cardinality(set) = 1
                  /\ q[Len(q)].op = "ServiceSetYAML"
                  /\ Cardinality(StepLines(i)) = 1
            /\ \A l \in ConfiguredLines(i) :
                  /\ set # {}
                  /\ ~failed
                  /\ \A m \in StepLines(i) : m < l
                  /\ \A k \in DOMAIN p.options :
                        /\ k \in DOMAIN env.services[p.service].options
                        /\ env.services[p.service].options[k] = p.options[k]
            /\ StepLines(i) # {} /\ ~failed =>
                  /\ i < idx
                  /\ Lookup(results, changes[i].id) = <<p.service>>
                  /\ set # {} => Cardinality(ConfiguredLines(i)) = 1
            /\ failed =>
                  /\ set # {}
                  /\ ConfiguredLines(i) = {}
                  /\ changes[i].id \notin DOMAIN results
                  /\ env.services[p.service].options = OptionsBefore(p.service)

\* a run returned no error after it set the options of a service it had
\* upgraded and of a service it had reused, and left alone a service with
\* no option
C25_Witness ==
    /\ pc = "returned"
    /\ err = <<>>
    /\ \E i, j \in ServiceChanges :
          /\ ConfiguredLines(i) # {}
          /\ \E l \in StepLines(i) :
                log[l].line[1] = "upgraded charm for existing service "
          /\ ConfiguredLines(j) # {}
          /\ \E l \in StepLines(j) : log[l].line[1] = "reusing service "
    /\ prev.run >= 1
    /\ \E i \in 1..Len(prev.changes) :
          /\ prev.changes[i].kind = "AddService"
          /\ DOMAIN prev.changes[i].params.options = {}

\* a first deployment set the options of a service and not of another
C25_WitnessDeployed ==
    /\ FirstDeploy
    /\ \E i, j \in ServiceChanges :
          /\ ConfiguredLines(i) # {}
          /\ CallsAt({"ServiceSetYAML"}, j) = {}

\* a run ended when ServiceSetYAML failed for a service it had deployed
C25_WitnessFailed ==
    \E i \in ServiceChanges :
        /\ EndedAt(i, "cannot set options for service")
        /\ StepLines(i) # {}
        /\ changes[i].params.service \notin DOMAIN start.env.services
        /\ env.services[changes[i].params.service].options = EmptyMap

\* the positions of the AddRelation changes whose handler called AddRelation
RelationChanges ==
    {i \in 1..Len(changes) :
        changes[i].kind = "AddRelation" /\ CallsAt({"AddRelation"}, i) # {}}

\* the relation of the AddRelation change
RelationOf(i) ==
    {resolveRelation(changes[i].params.endpoint1, results),
     resolveRelation(changes[i].params.endpoint2, results)}

\* the handler of the AddRelation change returned an error
RelationFailed(i) == EndedAt(i, "cannot add relation")

\* C26: the handler of an AddRelation change calls AddRelation once.  When
\* the relation was not in the model it logs "related <ep1> and <ep2>" and
\* the relation is in the model; when it was, it logs "<ep1> and <ep2> are
\* already related" and returns no error; any other error of AddRelation ends
\* the run, nothing being logged.  The relations of the model are those it
\* had before the run and those of the changes that logged "related": a run
\* of a bundle with more relations than the model has creates the missing
\* ones only.
C26_AddRelation ==
    /\ \A i \in RelationChanges :
          LET ep1 == resolveRelation(changes[i].params.endpoint1, results)
              ep2 == resolveRelation(changes[i].params.endpoint2, results)
          IN  /\ Cardinality(CallsAt({"AddRelation"}, i)) = 1
              /\ IF RelationFailed(i)
                 THEN /\ err[Len(err)] # "relation already exists"
                      /\ LinesAt(i) = {}
                      /\ RelationOf(i) \in env.relations
                            <=> RelationOf(i) \in start.env.relations
                 ELSE /\ i < idx
                      /\ Cardinality(LinesAt(i)) = 1
                      /\ \A l \in LinesAt(i) :
                            log[l].line =
                               IF RelationOf(i) \in start.env.relations
                               THEN ep1 \o <<" and ">> \o ep2
                                    \o <<" are already related">>
                               ELSE <<"related ">> \o ep1 \o <<" and ">> \o ep2
                      /\ RelationOf(i) \in env.relations
    /\ env.relations =
          start.env.relations
          \cup {RelationOf(i) : i \in {j \in RelationChanges : ~RelationFailed(j)}}

\* a run of a bundle with two relations found one in the model and created
\* the other
C26_Witness ==
    /\ pc = "returned"
    /\ err = <<>>
    /\ \E i, j \in RelationChanges :
          /\ RelationOf(i) \in start.env.relations
          /\ RelationOf(j) \notin start.env.relations
          /\ RelationOf(j) \in env.relations
    /\ Cardinality(env.relations) = Cardinality(start.env.relations) + 1

\* a run ended when AddRelation failed
C26_WitnessFailed ==
    \E i \in RelationChanges : RelationFailed(i) /\ RelationOf(i) \notin env.relations

\* the service the AddMachine or AddUnit change the loop is at is about
ServiceAt ==
    IF changes[idx].kind = "AddUnit"
    THEN resolve(changes[idx].params.service, results)
    ELSE serviceForMachineChange(changes, results, changes[idx].id)

\* the loop is at an AddMachine or AddUnit change of a service that has in
\* the view as many units as the bundle declares, or more
Skipping ==
    /\ pc = "loop"
    /\ idx <= Len(changes)
    /\ changes[idx].kind \in {"AddMachine", "AddUnit"}
    /\ ~IsPanic(ServiceAt)
    /\ HasService(data, ServiceAt)
    /\ Len(machinesForService(unitStatus, ServiceAt)) >= NumUnits(data, ServiceAt)

\* the machines the view has for the units of the service
MachinesInView(service) ==
    {unitStatus[u] : u \in {v \in DOMAIN unitStatus : <<UnitService(v)>> = service}}

\* C27: skip path.  The handler of an AddMachine or AddUnit change of a
\* service that has in the view at least the declared number of units makes
\* no call, changes neither the model nor the view, returns no error, so that
\* the loop goes on with the next change, and records under the identifier of
\* the change the machine the view has for one of the units of the service.
C27_SkipPath ==
    [][Skipping =>
          /\ calls' = calls
          /\ env' = env
          /\ unitStatus' = unitStatus
          /\ watcher' = watcher
          /\ pc' = "loop"
          /\ err' = <<>>
          /\ idx' = idx + 1
          /\ \E m \in MachinesInView(ServiceAt) :
                results' = Put(results, changes[idx].id, m)]_vars

\* the changes before the one the loop is at that made no call and have a
\* machine of the model as their result
Skipped(kind) ==
    {i \in 1..(idx - 1) :
        /\ changes[i].kind = kind
        /\ CallSeqAt(i) = <<>>
        /\ Lookup(results, changes[i].id) \in env.machines}

\* a run has skipped an AddMachine change and an AddUnit change, and is at
\* another change it will skip, of a service with more than one machine in
\* the view
C27_Witness ==
    /\ Skipping
    /\ Cardinality(MachinesInView(ServiceAt)) > 1
    /\ Skipped("AddMachine") # {}
    /\ Skipped("AddUnit") # {}

\* the service of the AddMachine or AddUnit change at the given position
ServiceOfChange(i) ==
    IF changes[i].kind = "AddUnit"
    THEN resolve(changes[i].params.service, results)
    ELSE serviceForMachineChange(changes, results, changes[i].id)

\* the changes of the given kind and service that took the skip path: the
\* loop went past them and their handler made no call
SkippedOf(kind, service) ==
    {i \in 1..Len(changes) :
        /\ i < idx
        /\ changes[i].kind = kind
        /\ CallSeqAt(i) = <<>>
        /\ ServiceOfChange(i) = <<service>>}

\* the least of a set of numbers that is not empty
Min(S) == CHOOSE n \in S : \A m \in S : n <= m

\* C28: in one run, for every service, the log has one line "avoid creating
\* other machines to host <service> units" when AddMachine changes of the
\* service were skipped, however many, and none otherwise, and one line
\* "avoid adding new units to service <service>" when AddUnit changes of the
\* service were skipped, and none otherwise; the line is logged by the first
\* of the skipped changes.  Each kind of line has its own set of services:
\* h.ignoredMachines and h.ignoredUnits hold the services that have the line.
C28_AvoidOnce ==
    pc \in {"loop", "returned"} =>
        \A n \in 1..Len(data.services) :
            LET service == data.services[n].name
                machineLines == LinesOf("avoid creating other machines to host ", service)
                unitLines == LinesOf("avoid adding new units to service ", service)
                machines == SkippedOf("AddMachine", service)
                units == SkippedOf("AddUnit", service)
            IN  /\ Cardinality(machineLines) = IF machines = {} THEN 0 ELSE 1
                /\ Cardinality(unitLines) = IF units = {} THEN 0 ELSE 1
                /\ \A l \in machineLines : log[l].idx = Min(machines)
                /\ \A l \in unitLines : log[l].idx = Min(units)
                /\ service \in ignoredMachines <=> machineLines # {}
                /\ service \in ignoredUnits <=> unitLines # {}

\* a run skipped more than one AddMachine change and more than one AddUnit
\* change of each of two services
C28_Witness ==
    /\ pc = "returned"
    /\ err = <<>>
    /\ Cardinality({n \in 1..Len(data.services) :
          /\ Cardinality(SkippedOf("AddMachine", data.services[n].name)) > 1
          /\ Cardinality(SkippedOf("AddUnit", data.services[n].name)) > 1}) = 2

\* a run skipped units of a service and no machine
C28_WitnessUnitsOnly ==
    /\ pc = "returned"
    /\ err = <<>>
    /\ ignoredUnits # {}
    /\ ignoredMachines = {}

\* the step at hand is the one of an AddUnit change that adds a unit and
\* returns no error
AddsUnit ==
    /\ pc = "loop"
    /\ idx <= Len(changes)
    /\ changes[idx].kind = "AddUnit"
    /\ \E k \in 1..Len(NewCalls) : NewCalls[k].op = "AddServiceUnits"
    /\ idx' = idx + 1
    /\ err' = <<>>

\* the AddUnit changes the run has applied by adding a unit
UnitsAdded ==
    {i \in 1..Len(changes) :
        i < idx /\ changes[i].kind = "AddUnit" /\ CallsAt({"AddServiceUnits"}, i) # {}}

\* C29: when an AddUnit change that is not skipped succeeds, the model has one
\* unit more, of the service of the change.  With an empty machine spec (no
\* "to", or a "to" that resolves to the empty string) the result of the change
\* is the name of the unit; otherwise it is the machine spec, which is the
\* machine the model has for the unit.  The view then maps the unit to the
\* machine spec, and the view has one machine entry more for the service, so
\* the unit counts in the skip tests that follow.  For the rest of the run
\* the unit stays in the view, with no machine (a delta read later may report
\* the unit before its machine) or with the one of the model.
C29_AddUnitResult ==
    /\ [][AddsUnit =>
            LET ch == changes[idx]
                service == resolve(ch.params.service, results)
                machineSpec == IF ch.params.to = <<>> THEN <<>>
                               ELSE resolveMachine(ch.params.to, results, unitStatus)
                added == DOMAIN env'.units \ DOMAIN env.units
            IN  /\ Cardinality(added) = 1
                /\ \A unit \in added :
                      /\ <<UnitService(unit)>> = service
                      /\ unit \notin DOMAIN unitStatus
                      /\ machineSpec # <<>> => env'.units[unit] = machineSpec
                      /\ results' = Put(results, ch.id,
                                        IF machineSpec = <<>> THEN unit ELSE machineSpec)
                      /\ unitStatus' = Put(unitStatus, unit, machineSpec)
                /\ Len(machinesForService(unitStatus', service))
                       = Len(machinesForService(unitStatus, service)) + 1]_vars
    /\ [](pc \in {"loop", "returned"} =>
            \A i \in UnitsAdded :
                LET r == results[changes[i].id]
                IN  IF IsValidUnit(r)
                    THEN /\ r \in DOMAIN unitStatus
                         /\ r \in DOMAIN env.units
                         /\ unitStatus[r] \in {<<>>, env.units[r]}
                    ELSE /\ r \in env.machines
                         /\ \E u \in DOMAIN unitStatus \cap DOMAIN env.units :
                               /\ <<UnitService(u)>> = ServiceOfChange(i)
                               /\ env.units[u] = r
                               /\ unitStatus[u] \in {<<>>, r})

\* a run added a unit with no machine spec and a unit to a machine, and
\* skipped a later AddUnit change of a service for which it had added a unit
C29_Witness ==
    /\ pc = "returned"
    /\ err = <<>>
    /\ \E i, j \in UnitsAdded :
          /\ IsValidUnit(results[changes[i].id])
          /\ changes[j].params.to # <<>>
          /\ results[changes[j].id] \in env.machines
    /\ \E i \in UnitsAdded : \E j \in 1..Len(changes) :
          /\ i < j
          /\ changes[j].kind = "AddUnit"
          /\ CallSeqAt(j) = <<>>
          /\ ServiceOfChange(j) = ServiceOfChange(i)

\* the AddService changes the loop has reached: applied, or at hand
ServicesReached ==
    {i \in 1..Len(changes) :
        /\ changes[i].kind = "AddService"
        /\ i <= idx
        /\ pc \in {"loop", "returned"}}

\* the AddCharm changes of the given charm reference
CharmChanges(ref) ==
    {j \in 1..Len(changes) :
        changes[j].kind = "AddCharm" /\ changes[j].params.charm = ref}

\* the URL the AddCharm change j added to the model: the one of its log line
AddedBy(j) ==
    {SubSeq(log[l].line, 2, Len(log[l].line)) :
        l \in {l \in 1..Len(log) : log[l].idx = j /\ log[l].line[1] = "added charm "}}

\* C30: every AddCharm change the run has applied left its URL, the one of its
\* log line and a charm of the model, in the results under "resolved-" and
\* its charm reference.  When the loop is at an AddService change, or past
\* it, there is one AddCharm change of its charm reference, before it, and
\* the results have under "resolved-" and the reference a URL that is not
\* empty and is the one that change added; so it is for each of the services
\* that share a reference.  ServiceDeploy is called with that URL.
C30_ResolvedCharm ==
    pc \in {"loop", "returned"} =>
        /\ \A j \in 1..Len(changes) :
              j < idx /\ changes[j].kind = "AddCharm" =>
                  LET key == <<"resolved-">> \o changes[j].params.charm
                  IN  /\ key \in DOMAIN results
                      /\ AddedBy(j) = {results[key]}
                      /\ results[key] \in env.charms
        /\ \A i \in ServicesReached :
              LET ref == changes[i].params.charm
                  key == <<"resolved-">> \o ref
              IN  /\ Cardinality(CharmChanges(ref)) = 1
                  /\ \A j \in CharmChanges(ref) : j < i
                  /\ key \in DOMAIN results
                  /\ results[key] # <<>>
                  /\ \A j \in CharmChanges(ref) : AddedBy(j) = {results[key]}
                  /\ \A l \in 1..Len(log) :
                        /\ log[l].idx = i
                        /\ log[l].line[1] = "service "
                        /\ log[l].line[3] = " deployed (charm: "
                        => SubSeq(log[l].line, 4, Len(log[l].line) - 1) = results[key]

\* two services that share a charm reference were deployed, after the one
\* AddCharm change of the reference
C30_Witness ==
    /\ pc \in {"loop", "returned"}
    /\ \E i, k \in ServicesReached :
          /\ i < k
          /\ k < idx
          /\ changes[i].params.charm = changes[k].params.charm
          /\ CallsAt({"ServiceDeploy"}, i) # {}
          /\ CallsAt({"ServiceDeploy"}, k) # {}
          /\ changes[i].params.service \in DOMAIN env.services
          /\ changes[k].params.service \in DOMAIN env.services
          /\ env.services[changes[k].params.service].charm
                 = results[<<"resolved-">> \o changes[k].params.charm]

\* a second run of a bundle reached its AddService changes
C30_WitnessSecondRun ==
    /\ SecondRun
    /\ pc = "returned"
    /\ err = <<>>
    /\ ServicesReached # {}

\* the AddCharm changes whose charm reference resolves to a bundle
InceptionChanges ==
    {j \in 1..Len(changes) :
        changes[j].kind = "AddCharm" /\ Resolved(changes[j].params.charm).series = "bundle"}

\* the loop reached the change and the run returned at it
EndedAtChange(j) == pc = "returned" /\ idx = j /\ CallsOf({"WatchAll"}) # {} /\ watcher.state = "stopped"

\* C31: the loop never goes past an AddCharm change whose charm reference
\* resolves to a URL of series "bundle".  The run that reaches one returns
\* "cannot deploy bundle: expected charm URL, got bundle URL"; the handler
\* made no call and logged no line, the results have nothing under
\* "resolved-" and the reference nor under the id of the change, the model
\* has no charm of that URL, no later change was applied, and the watcher is
\* stopped.
C31_BundleInception ==
    \A j \in InceptionChanges :
        /\ pc \in {"loop", "returned"} => idx <= j
        /\ pc = "returned" /\ idx = j /\ CallsOf({"WatchAll"}) # {} =>
              /\ err = <<"cannot deploy bundle", "expected charm URL, got bundle URL">>
              /\ CallSeqAt(j) = <<>>
              /\ \A l \in 1..Len(log) : log[l].idx # j
              /\ (<<"resolved-">> \o changes[j].params.charm) \notin DOMAIN results
              /\ changes[j].id \notin DOMAIN results
              /\ URLString(Resolved(changes[j].params.charm)) \notin env.charms
              /\ \A k \in 1..Len(changes) : k > j => ~Applied(changes[k]) \/ changes[k].kind \notin {"AddCharm", "AddService", "AddMachine", "AddUnit"}
              /\ watcher.state = "stopped"
              /\ watcher.stops = 1

\* a run returned at an AddCharm change of a bundle URL, after it applied the
\* changes before it
C31_Witness ==
    \E j \in InceptionChanges :
        /\ EndedAtChange(j)
        /\ j > 1
        /\ ErrHas(err, "expected charm URL, got bundle URL")
        /\ calls # <<>>

\* the changes that require the change at the given position, the
\* SetAnnotations changes left out
Dependents(i) ==
    {k \in 1..Len(changes) :
        /\ changes[k].kind # "SetAnnotations"
        /\ \E j \in 1..Len(changes[k].requires) : changes[k].requires[j] = changes[i].id}

\* the AddUnit change the search from the AddMachine change at the given
\* position ends at: the first dependent in the order of the plan, and from
\* a container change the first of its own
RECURSIVE FirstUnit(_)
FirstUnit(i) ==
    LET k == Min(Dependents(i))
    IN  IF changes[k].kind = "AddUnit" THEN k ELSE FirstUnit(k)

\* the service named by the AddService change the AddUnit change refers to
DeclaredService(u) ==
    LET s == CHOOSE s \in 1..Len(changes) :
                 changes[u].params.service = Placeholder(changes[s].id)
    IN  changes[s].params.service

\* C32: in the plan of a bundle that passed Verify, every AddMachine change
\* is required by a change that is not a SetAnnotations change, every such
\* change is an AddMachine or an AddUnit change that comes later in the plan,
\* so that the search of serviceForMachineChange goes forward and ends.  Once
\* the loop has reached the AddMachine change, serviceForMachineChange gives,
\* without a panic, the name of a service of the bundle: the service of the
\* first AddUnit dependent in the order of the plan, through container
\* changes, the SetAnnotations dependents skipped, whose placeholder the
\* results hold by then.
C32_ServiceForMachine ==
    pc \in {"loop", "returned"} =>
        \A i \in MachineChanges :
            /\ Dependents(i) # {}
            /\ \A k \in Dependents(i) :
                  k > i /\ changes[k].kind \in {"AddMachine", "AddUnit"}
            /\ i <= idx =>
                  LET r == serviceForMachineChange(changes, results, changes[i].id)
                      u == FirstUnit(i)
                  IN  /\ ~IsPanic(r)
                      /\ Len(r) = 1
                      /\ r[1] \in ServiceNames(data)
                      /\ r # <<"">>
                      /\ r = resolve(changes[u].params.service, results)
                      /\ r = <<DeclaredService(u)>>

\* the loop went past a machine change that a SetAnnotations change requires
\* before any other change does, and past a container change
C32_Witness ==
    /\ pc \in {"loop", "returned"}
    /\ \E i \in MachineChanges :
          /\ i < idx
          /\ \E a \in 1..Len(changes) :
                /\ changes[a].kind = "SetAnnotations"
                /\ changes[a].requires = <<changes[i].id>>
                /\ a < Min(Dependents(i))
    /\ \E i \in MachineChanges : i < idx /\ changes[i].requires # <<>>

\* the loop went past a machine change whose first dependent is a container
\* change
C32_WitnessContainer ==
    /\ pc \in {"loop", "returned"}
    /\ \E i \in MachineChanges :
          /\ i < idx
          /\ changes[Min(Dependents(i))].kind = "AddMachine"

\* a bundle with a machine that holds no unit does not pass Verify
C32_WitnessUnused ==
    /\ pc = "returned"
    /\ data = BundleUnused
    /\ calls = <<>>
    /\ err = <<"cannot deploy bundle", "invalid bundle">>

\* the names of the services of the bundles, and names that are parts of them
NamesAsked ==
    UNION {ServiceNames(d) : d \in Bundles} \cup {"", "w", "my", "sq", "wordpres"}

\* the units of the view whose name has the given service before the "/"
ViewUnits(service) == {u \in DOMAIN unitStatus : u[1] = service /\ u[2] = "/"}

\* C33: for every service name, machinesForService gives a list with one
\* entry for every unit of the view whose name has that service before the
\* "/", and no other entry: every machine value, the empty one too, is in the
\* list as many times as the view has units of the service with that value.
\* The length of the list is the number of those units, whatever the number
\* of machines.
C33_MachinesForService ==
    \A name \in NamesAsked :
        LET r == machinesForService(unitStatus, <<name>>)
            values == {unitStatus[u] : u \in ViewUnits(name)}
        IN  /\ Len(r) = Cardinality(ViewUnits(name))
            /\ {r[i] : i \in 1..Len(r)} = values
            /\ \A m \in values :
                  Cardinality({i \in 1..Len(r) : r[i] = m})
                      = Cardinality({u \in ViewUnits(name) : unitStatus[u] = m})

\* the view has two units of a service with the same machine value, a unit
\* with no machine yet, and units of another service
C33_Witness ==
    /\ pc = "loop"
    /\ \E name \in ServiceNames(data) :
          LET r == machinesForService(unitStatus, <<name>>)
          IN  /\ Len(r) >= 2
              /\ Cardinality({r[i] : i \in 1..Len(r)}) < Len(r)
              /\ Cardinality(DOMAIN unitStatus) > Len(r)
    /\ \E u \in DOMAIN unitStatus : unitStatus[u] = <<>>

\* the view has two units of a service in one machine
C33_WitnessSameMachine ==
    \E u, v \in DOMAIN unitStatus :
        u # v /\ u[1] = v[1] /\ unitStatus[u] = unitStatus[v] /\ unitStatus[u] # <<>>

\* the tokens resolve is asked: the placeholders of the changes of the plan,
\* their identifiers without the "$", and tokens of no change
TokensAsked ==
    {Placeholder(changes[i].id) : i \in 1..Len(changes)}
        \cup {changes[i].id : i \in 1..Len(changes)}
        \cup {<<>>, <<"$">>, <<"$", "absent">>, <<"absent">>, <<"deploy", "$">>}

\* the keys the handlers of the changes up to the one at hand write
KeysWritten ==
    {changes[i].id : i \in {i \in 1..Len(changes) : i <= idx}}
        \cup {<<"resolved-">> \o changes[i].params.charm :
                 i \in {i \in 1..Len(changes) : i <= idx /\ changes[i].kind = "AddCharm"}}

\* C34: for a token that starts with "$", resolve gives the value the
\* results have under the rest of the token, and the empty string when they
\* have no such key; for a token that does not start with "$", the empty
\* token too, it panics.  A lookup writes nothing: the results have no key
\* but those the handlers wrote for the changes they applied.
C34_Resolve ==
    /\ \A t \in TokensAsked :
          LET r == resolve(t, results)
          IN  IF t # <<>> /\ t[1] = "$"
              THEN /\ ~IsPanic(r)
                   /\ Tail(t) \in DOMAIN results => r = results[Tail(t)]
                   /\ Tail(t) \notin DOMAIN results => r = <<>>
              ELSE IsPanic(r)
    /\ pc \in {"loop", "returned"} => DOMAIN results \subseteq KeysWritten

\* the handlers resolved placeholders, and of the tokens asked some have a
\* key in the results and some have none
C34_Witness ==
    /\ pc = "loop"
    /\ resolved # <<>>
    /\ \E t \in TokensAsked :
          t # <<>> /\ t[1] = "$" /\ Tail(t) \in DOMAIN results /\ results[Tail(t)] # <<>>
    /\ \E i \in 1..Len(changes) :
          i > idx /\ changes[i].id \notin DOMAIN results

\* the SetAnnotations changes the loop went past
AnnotationsApplied ==
    {i \in 1..Len(changes) : i < idx /\ changes[i].kind = "SetAnnotations"}

\* C35: the step that applies a SetAnnotations change moves the loop to the
\* next change with no error, and leaves the model, the calls, the log, the
\* results, the view of the units, the ignored services and the watcher as
\* they were.  No SetAnnotations change the loop went past has a call, a log
\* line or a result.
C35_SetAnnotationsNoOp ==
    /\ [][AtChange("SetAnnotations") =>
            /\ idx' = idx + 1
            /\ pc' = "loop"
            /\ err' = <<>>
            /\ UNCHANGED <<env, calls, log, results, unitStatus, ignoredMachines,
                           ignoredUnits, watcher, resolved, failures>>]_vars
    /\ [](pc \in {"loop", "returned"} =>
            \A i \in AnnotationsApplied :
                /\ CallSeqAt(i) = <<>>
                /\ \A l \in 1..Len(log) : log[l].idx # i
                /\ changes[i].id \notin DOMAIN results)

\* a run that returned no error went past the SetAnnotations change of a
\* machine; another went past the one of a service
C35_Witness ==
    /\ pc = "returned"
    /\ err = <<>>
    /\ \E i \in AnnotationsApplied : changes[i].params.entityType = "machine"

C35_WitnessService ==
    /\ pc = "returned"
    /\ err = <<>>
    /\ \E i \in AnnotationsApplied : changes[i].params.entityType = "service"

\* the AddMachine and AddUnit changes that took the skip path
SkippedChanges ==
    {i \in 1..Len(changes) :
        /\ i < idx
        /\ changes[i].kind \in {"AddMachine", "AddUnit"}
        /\ CallSeqAt(i) = <<>>}

\* the change k requires the change i, directly or through container
\* AddMachine changes
RECURSIVE RequiresThrough(_, _)
RequiresThrough(k, i) ==
    \E j \in 1..Len(changes) :
        /\ j < k
        /\ \E n \in 1..Len(changes[k].requires) : changes[k].requires[n] = changes[j].id
        /\ changes[j].kind = "AddMachine"
        /\ j = i \/ RequiresThrough(j, i)

\* the AddUnit changes the run applied with a call, that require, directly or
\* through containers, an AddMachine change that was skipped
AppliedOnSkipped ==
    {k \in UnitsAdded :
        \E i \in SkippedChanges : changes[i].kind = "AddMachine" /\ RequiresThrough(k, i)}

\* C36, as claimed: when an AddMachine change took the skip path, every
\* AddUnit change that requires it, directly or through container changes,
\* took the skip path too.
C36_SkipTogether == pc \in {"loop", "returned"} => AppliedOnSkipped = {}

\* what holds of a skipped AddMachine change: the AddUnit changes of the
\* service it was skipped for, the one serviceForMachineChange gives, are not
\* applied with a call after it, and an AddUnit change of another service
\* that requires it and is applied has, as its placement, the pseudo-result
\* of the skipped change
C36_SkippedService ==
    pc \in {"loop", "returned"} =>
        \A i \in SkippedChanges : changes[i].kind = "AddMachine" =>
            \A k \in UnitsAdded : k > i =>
                /\ ServiceOfChange(k) # ServiceOfChange(i)
                /\ changes[k].params.to = Placeholder(changes[i].id) =>
                      \/ results[changes[k].id] = results[changes[i].id]
                      \/ results[changes[i].id] = <<>>

\* a run that returned no error applied AddUnit changes that require a
\* skipped AddMachine change, in the machine the skipped change stored
C36_Reached ==
    /\ pc = "returned"
    /\ err = <<>>
    /\ AppliedOnSkipped # {}
    /\ \A k \in AppliedOnSkipped : results[changes[k].id] \in env.machines

\* C37, as claimed: within a run no step removes a unit from the view, and no
\* step gives the empty machine to a unit that had a machine in the view.
C37_ViewOnlyGains ==
    [][run' = run =>
          \A u \in DOMAIN unitStatus :
              /\ u \in DOMAIN unitStatus'
              /\ unitStatus[u] # <<>> => unitStatus'[u] # <<>>]_vars

\* what holds of the view: within a run no step removes a unit from it, and
\* a unit loses its machine in the view only in a step of updateUnitStatus,
\* by a delta that has the unit with no machine
C37_NoEntryRemoved ==
    [][run' = run =>
          \A u \in DOMAIN unitStatus :
              /\ u \in DOMAIN unitStatus'
              /\ unitStatus[u] # <<>> /\ unitStatus'[u] = <<>> =>
                    /\ Waiting
                    /\ \E k \in 1..Len(watcher.queue) :
                          watcher.queue[k] = [name |-> u, machineId |-> <<>>]]_vars

\* the view lost the machine of a unit that the model has in a machine
C37_Reached ==
    /\ pc = "loop"
    /\ \E u \in DOMAIN unitStatus :
          /\ unitStatus[u] = <<>>
          /\ u \in DOMAIN env.units
          /\ env.units[u] # <<>>
          /\ \E l \in 1..Len(log) :
                log[l].line = <<"added ">> \o u \o <<" unit to machine ">> \o env.units[u]

\* the service, as the bundle declares it, that the AddMachine or AddUnit
\* change at the given position is about
ReachedService(i) ==
    ServiceOf(data, DeclaredService(IF changes[i].kind = "AddUnit" THEN i ELSE FirstUnit(i)))

\* C38: every service that an AddMachine or AddUnit change of the plan is
\* about declares one unit or more, though a bundle may declare a service
\* with no unit; so the skip path, taken when the view has at least the
\* declared number of units, is only taken with one machine entry or more in
\* the list rand.Intn picks from, and no run ends with a panic.
C38_PickDefined ==
    /\ pc \in {"loop", "returned"} =>
          \A i \in 1..Len(changes) :
              changes[i].kind \in {"AddMachine", "AddUnit"} =>
                  ReachedService(i).numUnits >= 1
    /\ Skipping =>
          /\ NumUnits(data, ServiceAt) >= 1
          /\ Len(machinesForService(unitStatus, ServiceAt)) >= 1
          /\ Picks(St, ServiceAt) = 1..Len(machinesForService(unitStatus, ServiceAt))
    /\ pc # "panicked"
    /\ ~IsPanic(err)

\* the loop is at a change that takes the skip path, in a run of a bundle
\* that declares a service with no unit, which the model has
C38_Witness ==
    /\ Skipping
    /\ \E n \in 1..Len(data.services) :
          /\ data.services[n].numUnits = 0
          /\ data.services[n].name \in DOMAIN env.services

\* the loop is at a change that takes the skip path with more entries than
\* one to pick from
C38_WitnessSeveral ==
    /\ Skipping
    /\ Len(machinesForService(unitStatus, ServiceAt)) > 1

\* the services of the model whose charm or options the step at hand changes
ServicesChanged ==
    {s \in DOMAIN env.services : env'.services[s] # env.services[s]}

\* C39: no step of a run, of a handler that succeeds or fails, of the start
\* or of the end of the run, takes a charm, a service, a machine, a unit or a
\* relation from the model.  A unit of the model stays where it is.  A
\* service of the model changes only in a step of the AddService change of
\* that service: its charm by ServiceSetCharm, to a charm that differs from
\* the old one in its revision only, its options by ServiceSetYAML.
C39_NothingRemoved ==
    [][/\ Includes(env', env)
       /\ \A u \in DOMAIN env.units : env'.units[u] = env.units[u]
       /\ \A s \in ServicesChanged :
             /\ AtChange("AddService")
             /\ changes[idx].params.service = s
             /\ env'.services[s].charm # env.services[s].charm =>
                   /\ \E k \in 1..Len(NewCalls) : NewCalls[k].op = "ServiceSetCharm"
                   /\ Compatible(ParseURL(env'.services[s].charm),
                                 ParseURL(env.services[s].charm))
             /\ env'.services[s].options # env.services[s].options =>
                   /\ \E k \in 1..Len(NewCalls) : NewCalls[k].op = "ServiceSetYAML"
                   /\ DOMAIN env.services[s].options
                          \subseteq DOMAIN env'.services[s].options]_vars

\* a run that a failed call ended left in the model what it had added, and
\* the model had a service whose charm and options a run changed
C39_Witness ==
    /\ pc = "returned"
    /\ err # <<>>
    /\ calls # <<>>
    /\ DOMAIN env.units # DOMAIN start.env.units
    /\ env.machines # start.env.machines
    /\ \E s \in DOMAIN start.env.services :
          /\ env.services[s].charm # start.env.services[s].charm
          /\ env.services[s].options # start.env.services[s].options

=============================================================================
